---- MODULE Spec2Model ----
(***************************************************************************)
(* Model of the Cesium ION upload helper (src/cesium_helper.py):           *)
(* the per-file workflow upload_gml_file, the two polling loops            *)
(* wait_for_processing and wait_for_archive_completion, and the batch      *)
(* runner upload_files_parallel with its ThreadPoolExecutor.               *)
(*                                                                         *)
(* Time is counted in seconds.  A request is modelled as taking no time;   *)
(* the loops advance their clock by the sleep they perform.                *)
(***************************************************************************)
EXTENDS Integers, Sequences, FiniteSets, TLC

(***************************************************************************)
(* Bounds of the model.                                                    *)
(***************************************************************************)
\* largest number of file paths handed to upload_files_parallel
MaxFiles == 2
\* largest max_workers handed to upload_files_parallel
MaxWorkers == 2
\* the timeout argument of wait_for_processing, in seconds (the code's
\* default is 900; the loop is checked for a budget of a few sleeps)
ProcTimeout == 20
\* the timeout argument of wait_for_archive_completion, in seconds (the
\* code's default is 300)
ArchTimeout == 10

(***************************************************************************)
(* Program constants.                                                      *)
(***************************************************************************)
\* time.sleep(10) in wait_for_processing
ProcSleep == 10
\* time.sleep(5) in wait_for_archive_completion
ArchSleep == 5

\* Python's None
None == <<>>

\* the file paths a batch may be given
PathOrder == <<"a.gml", "b.gml", "c.gml", "d.gml">>

\* Path(file_path).name
Filename(p) == p

\* status values of the 'status' field of an asset or archive record;
\* "UNKNOWN" is what .get('status', 'UNKNOWN') yields for a missing field
Statuses ==
  {"COMPLETE", "ERROR", "DATA_ERROR", "FAILED",
   "IN_PROGRESS", "NOT_STARTED", "PENDING", "UNKNOWN"}

\* a fetch that failed with requests.exceptions.RequestException
RequestFailed == "<RequestException>"
\* a fetch that raised any other exception
Raised == "<Exception>"
\* what one status fetch of a polling loop can produce
FetchOutcomes == Statuses \cup {RequestFailed, Raised}
\* placeholder outcome of an iteration that performs no fetch
NoFetch == "<no fetch>"

(***************************************************************************)
(* State.                                                                  *)
(***************************************************************************)
VARIABLES
  file_paths,     \* upload_files_parallel's argument: a sequence of paths
  max_workers,    \* upload_files_parallel's argument
  options,        \* wait_for_completion, create_archive, download_archive
  mainpc,         \* position of the thread running upload_files_parallel
  submitted,      \* number of tasks handed to executor.submit so far
  queue,          \* the executor's work queue (task numbers, FIFO)
  tpc,            \* per task: position inside upload_gml_file
  asset_id,       \* per task: local asset_id (None until line 384)
  archive_id,     \* per task: local archive_id
  elapsed,        \* per task: time.time() - start_time of the running loop
  ret,            \* per task: the tuple upload_gml_file returned, or None
  trace,          \* per task: the requests issued so far, with their fate
  finished,       \* as_completed: its waiter's finished_futures, the futures
                  \* that completed since the call and are not yet yielded
  ac_finished,    \* as_completed: futures already done when it was called
  yielded,        \* as_completed: futures yielded so far
  results,        \* self.results
  wfp,            \* a stand-alone call of wait_for_processing
  wac,            \* a stand-alone call of wait_for_archive_completion
  dl_fs,          \* the output directory: path |-> the file stored there
  dl_calls,       \* the calls of download_archive made so far, in order
  ap_worker,      \* per worker thread: its position around lines 414-445
  ap_info,        \* per worker thread: the archive_info it has built
  ap_main,        \* the calling thread's position in the loop at 505-527
  ap_results,     \* self.results as these threads append to it
  mn_env,         \* main.py: the environment token, the arguments, the files
  mn_pc,          \* main.py: position of main()
  mn_res,         \* main.py: tasks started and the lengths of the result lists
  mn_out,         \* main.py: the closing message main() printed
  mn_exit,        \* main.py: the exit status of the process, None while it runs
  mo_ids,         \* check_status.py: the number of asset ids given to monitor_assets
  mo_server,      \* check_status.py: the status the server holds for each asset
  mo_pc,          \* check_status.py: position of monitor_assets
  mo_idx,         \* check_status.py: the asset of the round being fetched
  mo_all,         \* check_status.py: all_complete
  mo_round,       \* check_status.py: the rounds begun so far
  mo_log,         \* check_status.py: the calls of get_asset_status made so far
  mo_exc,         \* check_status.py: the exception being raised, None if none
  mo_int,         \* check_status.py: where the interrupt arrived, None before it
  mo_out,         \* check_status.py: how monitor_assets ended
  mn_int,         \* main.py: a KeyboardInterrupt arrived while the batch was running
  cd_fs,          \* concurrent download_archive calls: the output directory
  cd_w,           \* concurrent download_archive calls: per worker its position and locals
  da_server,      \* download_all_completed_archives: the status of each archive the server lists
  da_pc,          \* download_all_completed_archives: position of the call and of its caller
  da_attempts,    \* download_all_completed_archives: the archives download_archive was called for
  da_ret,         \* download_all_completed_archives: the list it returned
  da_exc,         \* download_all_completed_archives: the exception that left it, if any
  da_exit,        \* download_archives.py: the exit status of the script, None while it runs
  ca_ids,         \* create_archives_for_completed_assets: the asset ids it was given
  ca_pc,          \* create_archives_for_completed_assets: position in the function
  ca_idx,         \* create_archives_for_completed_assets: index of the current loop
  ca_fetched,     \* create_archives_for_completed_assets: what get_asset_status gave for each id so far
  ca_completed,   \* create_archives_for_completed_assets: the local list completed_assets
  ca_requests,    \* create_archives_for_completed_assets: the asset ids create_archive was called for
  ca_polls,       \* create_archives_for_completed_assets: asset id and result of each archive poll
  ca_archived     \* create_archives_for_completed_assets: self.results['archived']

batchvars ==
  <<file_paths, max_workers, options, mainpc, submitted, queue, tpc,
    asset_id, archive_id, elapsed, ret, trace, finished, ac_finished,
    yielded, results>>

pollvars == <<wfp, wac>>

dlvars == <<dl_fs, dl_calls>>

apvars == <<ap_worker, ap_info, ap_main, ap_results>>

mnvars == <<mn_env, mn_pc, mn_res, mn_out, mn_exit>>

monvars == <<mo_ids, mo_server, mo_pc, mo_idx, mo_all, mo_round, mo_log, mo_exc, mo_int, mo_out>>

mivars == <<mn_int>>

cdvars == <<cd_fs, cd_w>>

davars == <<da_server, da_pc, da_attempts, da_ret, da_exc, da_exit>>

cavars == <<ca_ids, ca_pc, ca_idx, ca_fetched, ca_completed, ca_requests, ca_polls, ca_archived>>

\* what a batch run leaves alone
nonbatch == <<pollvars, dlvars, apvars, mnvars, monvars, mivars, cdvars, davars, cavars>>

\* what the stand-alone polling loops leave alone
nonpoll == <<batchvars, dlvars, apvars, mnvars, monvars, mivars, cdvars, davars, cavars>>

\* what download_archive leaves alone
nondl == <<batchvars, pollvars, apvars, mnvars, monvars, mivars, cdvars, davars, cavars>>

\* what the append statements leave alone
nonap == <<batchvars, pollvars, dlvars, mnvars, monvars, mivars, cdvars, davars, cavars>>

\* what main() leaves alone
nonmn == <<batchvars, pollvars, dlvars, apvars, monvars, mivars, cdvars, davars, cavars>>

\* what monitor_assets leaves alone
nonmon == <<batchvars, pollvars, dlvars, apvars, mnvars, mivars, cdvars, davars, cavars>>

\* what an interrupt of the upload run leaves alone, main()'s state apart
nonmi == <<batchvars, pollvars, dlvars, apvars, monvars, cdvars, davars, cavars>>

\* what concurrent downloads leave alone
noncd == <<batchvars, pollvars, dlvars, apvars, mnvars, monvars, mivars, davars, cavars>>

\* what download_all_completed_archives leaves alone
nonda == <<batchvars, pollvars, dlvars, apvars, mnvars, monvars, mivars, cdvars, cavars>>

\* what create_archives_for_completed_assets leaves alone
nonca == <<batchvars, pollvars, dlvars, apvars, mnvars, monvars, mivars, cdvars, davars>>

vars == <<batchvars, pollvars, dlvars, apvars, mnvars, monvars, mivars, cdvars, davars, cavars>>

(***************************************************************************)
(* wait_for_processing: one iteration of its while loop.                   *)
(* el is time.time() - start_time at the loop test, o the outcome of       *)
(* self.get_asset_status in this iteration.  The result says whether the   *)
(* function returned, what it returned, and the clock after the sleep.     *)
(***************************************************************************)
PollReturn(ok, st, el) ==
  [returned |-> TRUE, success |-> ok, status |-> st, elapsed |-> el]

PollContinue(el) ==
  [returned |-> FALSE, success |-> FALSE, status |-> "", elapsed |-> el]

\* a plausible slip: 'DATA_ERROR' missing from the list of failed statuses
wait_for_processing_error_only(el, o) ==
  IF ~(el < ProcTimeout) THEN PollReturn(FALSE, "TIMEOUT", el)
  ELSE IF o = RequestFailed THEN PollReturn(FALSE, "ERROR_FETCHING_STATUS", el)
  ELSE IF o = Raised THEN PollContinue(el + ProcSleep)
  ELSE IF o = "COMPLETE" THEN PollReturn(TRUE, o, el)
  ELSE IF o = "ERROR" THEN PollReturn(FALSE, o, el)
  ELSE PollContinue(el + ProcSleep)

\* a plausible slip: a status the code does not know ends the poll
wait_for_processing_unknown_fails(el, o) ==
  IF ~(el < ProcTimeout) THEN PollReturn(FALSE, "TIMEOUT", el)
  ELSE IF o = RequestFailed THEN PollReturn(FALSE, "ERROR_FETCHING_STATUS", el)
  ELSE IF o = Raised THEN PollContinue(el + ProcSleep)
  ELSE IF o = "COMPLETE" THEN PollReturn(TRUE, o, el)
  ELSE IF o \in {"ERROR", "DATA_ERROR"} THEN PollReturn(FALSE, o, el)
  ELSE IF o \in {"AWAITING_FILES", "NOT_STARTED", "IN_PROGRESS"}
       THEN PollContinue(el + ProcSleep)
  ELSE PollReturn(FALSE, o, el)

wait_for_processing(el, o) ==
  IF ~(el < ProcTimeout) THEN PollReturn(FALSE, "TIMEOUT", el)
  ELSE IF o = RequestFailed THEN PollReturn(FALSE, "ERROR_FETCHING_STATUS", el)
  ELSE IF o = Raised THEN PollContinue(el + ProcSleep)
  ELSE IF o = "COMPLETE" THEN PollReturn(TRUE, o, el)
  ELSE IF o \in {"ERROR", "DATA_ERROR"} THEN PollReturn(FALSE, o, el)
  ELSE IF o \in {"AWAITING_FILES", "NOT_STARTED", "IN_PROGRESS"}
       THEN PollContinue(el + ProcSleep)
  ELSE PollContinue(el + ProcSleep)

(***************************************************************************)
(* wait_for_archive_completion: one iteration of its while loop.  The      *)
(* request is made inside the try, so a RequestException is handled like   *)
(* any other exception: sleep and go round again.                          *)
(***************************************************************************)
wait_for_archive_completion(el, o) ==
  IF ~(el < ArchTimeout) THEN PollReturn(FALSE, "TIMEOUT", el)
  ELSE IF o \in {RequestFailed, Raised} THEN PollContinue(el + ArchSleep)
  ELSE IF o = "COMPLETE" THEN PollReturn(TRUE, o, el)
  ELSE IF o \in {"ERROR", "FAILED"} THEN PollReturn(FALSE, o, el)
  ELSE IF o \in {"PENDING", "IN_PROGRESS", "PROCESSING"}
       THEN PollContinue(el + ArchSleep)
  ELSE PollContinue(el + ArchSleep)

\* the outcomes an iteration starting at clock el can draw: one fetch while
\* the budget lasts, none once the loop test fails
Fetches(el, timeout) == IF el < timeout THEN FetchOutcomes ELSE {NoFetch}

(***************************************************************************)
(* The two loops called on their own, each with the history of what its    *)
(* fetches produced.                                                       *)
(***************************************************************************)
LoopStart == [pc |-> "polling", elapsed |-> 0, fetched |-> <<>>,
              success |-> FALSE, status |-> ""]

LoopNext(l, r, o) ==
  [pc |-> IF r.returned THEN "returned" ELSE "polling",
   elapsed |-> r.elapsed,
   fetched |-> IF o = NoFetch THEN l.fetched ELSE Append(l.fetched, o),
   success |-> r.success,
   status |-> r.status]

PollProcessing ==
  /\ wfp.pc = "polling"
  /\ \E o \in Fetches(wfp.elapsed, ProcTimeout) :
       wfp' = LoopNext(wfp, wait_for_processing(wfp.elapsed, o), o)
  /\ UNCHANGED <<nonpoll, wac>>

PollArchive ==
  /\ wac.pc = "polling"
  /\ \E o \in Fetches(wac.elapsed, ArchTimeout) :
       wac' = LoopNext(wac, wait_for_archive_completion(wac.elapsed, o), o)
  /\ UNCHANGED <<nonpoll, wfp>>

(***************************************************************************)
(* upload_gml_file, run by a worker thread for task i (the i-th submitted  *)
(* path).  Each request is one step; what it produces is drawn from the    *)
(* outcomes its code distinguishes.                                        *)
(***************************************************************************)
Tasks == 1 .. Len(file_paths)

\* positions at which a worker thread is inside upload_gml_file for a task
Running ==
  {"create", "s3", "notify", "processing", "archive", "archiving", "download"}

Event(s, r) == [step |-> s, res |-> r]

\* the request is entered in the task's trace; a polling loop's fetch that
\* follows a fetch of the same loop takes that one's place, so that the
\* trace holds each loop once, with the fate of its latest fetch
Log(i, s, r) ==
  LET t == trace[i] IN
  trace' = [trace EXCEPT ![i] =
              IF t # <<>> /\ t[Len(t)] = Event(s, "continue")
                THEN [t EXCEPT ![Len(t)] = Event(s, r)]
                ELSE Append(t, Event(s, r))]

\* the future of task i completes: once as_completed has installed its
\* waiter, the future is added to the waiter's list
Complete(i) ==
  /\ tpc' = [tpc EXCEPT ![i] = "done"]
  /\ finished' = IF mainpc = "collect" THEN Append(finished, i) ELSE finished

\* `return filename, success, message, asset_id`
Return(i, ok, msg, id) ==
  /\ ret' = [ret EXCEPT ![i] =
               [filename |-> Filename(file_paths[i]), success |-> ok,
                message |-> msg, asset_id |-> id]]
  /\ Complete(i)

\* a step succeeded and the workflow moves on to position pc
Goto(i, pc) ==
  /\ tpc' = [tpc EXCEPT ![i] = pc]
  /\ UNCHANGED <<ret, finished>>

\* a plausible slip: no handler, the exception leaves upload_gml_file and is
\* stored in the future
Except_reraised(i) ==
  /\ ret' = [ret EXCEPT ![i] = [exception |-> "Exception"]]
  /\ Complete(i)

\* except Exception as e: return filename, False, "Unexpected error ...", None
Except(i) == Return(i, FALSE, <<"Unexpected error">>, None)

\* the ids the server hands out: one per create request, all distinct
NewAssetId(i) == <<"asset", i>>

NewArchiveId(i) == <<"archive", i>>

\* outcomes of create_asset_metadata as upload_gml_file sees them: a response,
\* None (RequestException caught inside), or an exception that escapes it
\* (KeyError on result['assetMetadata']['id'])
CreateOutcomes == {"ok", "none", "raise"}

\* a plausible slip: a create request that failed is sent again
Step1_create_asset_metadata_retried(i) ==
  /\ tpc[i] = "create"
  /\ \E o \in CreateOutcomes :
       /\ Log(i, "create", o)
       /\ IF o = "ok"
            THEN /\ asset_id' = [asset_id EXCEPT ![i] = NewAssetId(i)]
                 /\ Goto(i, "s3")
            ELSE /\ UNCHANGED asset_id
                 /\ IF o = "none" THEN Goto(i, "create") ELSE Except(i)
  /\ UNCHANGED <<file_paths, max_workers, options, mainpc, submitted, queue,
                 archive_id, elapsed, ac_finished, yielded, results, nonbatch>>

Step1_create_asset_metadata(i) ==
  /\ tpc[i] = "create"
  /\ \E o \in CreateOutcomes :
       /\ Log(i, "create", o)
       /\ IF o = "ok"
            THEN /\ asset_id' = [asset_id EXCEPT ![i] = NewAssetId(i)]
                 /\ Goto(i, "s3")
            ELSE /\ UNCHANGED asset_id
                 /\ IF o = "none"
                      THEN Return(i, FALSE,
                                  <<"Failed to create asset metadata">>, None)
                      ELSE Except(i)
  /\ UNCHANGED <<file_paths, max_workers, options, mainpc, submitted, queue,
                 archive_id, elapsed, ac_finished, yielded, results, nonbatch>>

\* outcomes of upload_file_to_s3: True, False (any exception inside its try),
\* or an exception raised before its try (Path(file_path).stat() on a path
\* that is not there)
S3Outcomes == {"ok", "false", "raise"}

\* a plausible slip: the return value of upload_file_to_s3 is not tested
Uploaded_unchecked(o) == o # "raise"

\* `if not self.upload_file_to_s3(file_path, upload_location)` is not taken
Uploaded(o) == o = "ok"

Step2_upload_file_to_s3(i) ==
  /\ tpc[i] = "s3"
  /\ \E o \in S3Outcomes :
       /\ Log(i, "s3", o)
       /\ IF Uploaded(o) THEN Goto(i, "notify")
          ELSE IF o = "false"
            THEN Return(i, FALSE, <<"Failed to upload file to S3">>,
                        asset_id[i])
            ELSE Except(i)
  /\ UNCHANGED <<file_paths, max_workers, options, mainpc, submitted, queue,
                 asset_id, archive_id, elapsed, ac_finished, yielded, results, nonbatch>>

\* outcomes of notify_upload_complete: True, False (RequestException), or an
\* exception of another class, which its handler does not catch
NotifyOutcomes == {"ok", "false", "raise"}

\* a plausible slip: a notification that failed is sent again
Step3_notify_upload_complete_retried(i) ==
  /\ tpc[i] = "notify"
  /\ \E o \in NotifyOutcomes :
       /\ Log(i, "notify", o)
       /\ IF o = "ok"
            THEN IF options.wait_for_completion
                   THEN /\ Goto(i, "processing")
                        /\ elapsed' = [elapsed EXCEPT ![i] = 0]
                   ELSE /\ Return(i, TRUE,
                                  <<"Upload initiated successfully">>,
                                  asset_id[i])
                        /\ UNCHANGED elapsed
          ELSE /\ UNCHANGED elapsed
               /\ IF o = "false" THEN Goto(i, "notify") ELSE Except(i)
  /\ UNCHANGED <<file_paths, max_workers, options, mainpc, submitted, queue,
                 asset_id, archive_id, ac_finished, yielded, results, nonbatch>>

Step3_notify_upload_complete(i) ==
  /\ tpc[i] = "notify"
  /\ \E o \in NotifyOutcomes :
       /\ Log(i, "notify", o)
       /\ IF o = "ok"
            THEN IF options.wait_for_completion
                   THEN /\ Goto(i, "processing")
                        /\ elapsed' = [elapsed EXCEPT ![i] = 0]
                   ELSE /\ Return(i, TRUE,
                                  <<"Upload initiated successfully">>,
                                  asset_id[i])
                        /\ UNCHANGED elapsed
          ELSE /\ UNCHANGED elapsed
               /\ IF o = "false"
                    THEN Return(i, FALSE,
                                <<"Failed to notify upload completion">>,
                                asset_id[i])
                    ELSE Except(i)
  /\ UNCHANGED <<file_paths, max_workers, options, mainpc, submitted, queue,
                 asset_id, archive_id, ac_finished, yielded, results, nonbatch>>

\* the loop's clock after an iteration; start_time is a local of the call
\* and is gone when it returns
LoopClock(r) == IF r.returned THEN 0 ELSE r.elapsed

\* how a loop iteration is entered in the trace
PollRes(r) == IF ~r.returned THEN "continue"
              ELSE IF r.success THEN "ok" ELSE "false"

\* one iteration of wait_for_processing and, when it returns, lines 402-457
Step4_wait_for_processing(i) ==
  /\ tpc[i] = "processing"
  /\ \E o \in Fetches(elapsed[i], ProcTimeout) :
       LET r == wait_for_processing(elapsed[i], o) IN
       /\ IF o = NoFetch THEN UNCHANGED trace
                         ELSE Log(i, "status", PollRes(r))
       /\ elapsed' = [elapsed EXCEPT ![i] = LoopClock(r)]
       /\ IF ~r.returned THEN UNCHANGED <<tpc, ret, finished>>
          ELSE IF r.success
            THEN IF options.create_archive
                   THEN Goto(i, "archive")
                   ELSE Return(i, TRUE,
                          <<"Upload and processing completed successfully">>,
                          asset_id[i])
            ELSE Return(i, FALSE,
                   <<"Upload succeeded but processing failed with status",
                     r.status>>,
                   asset_id[i])
  /\ UNCHANGED <<file_paths, max_workers, options, mainpc, submitted, queue,
                 asset_id, archive_id, ac_finished, yielded, results, nonbatch>>

\* outcomes of create_archive: (True, id, msg); (False, None, msg), for a
\* response without id and for a RequestException alike; or an exception
\* that escapes it (int(asset_id) before the try, result.get on a body that
\* is no object)
ArchiveOutcomes == {"ok", "false", "raise"}

Step5_create_archive(i) ==
  /\ tpc[i] = "archive"
  /\ \E o \in ArchiveOutcomes :
       /\ Log(i, "archive", o)
       /\ IF o = "ok"
            THEN /\ archive_id' = [archive_id EXCEPT ![i] = NewArchiveId(i)]
                 /\ elapsed' = [elapsed EXCEPT ![i] = 0]
                 /\ Goto(i, "archiving")
            ELSE /\ UNCHANGED <<archive_id, elapsed>>
                 /\ IF o = "raise" THEN Except(i)
                    ELSE Return(i, TRUE,
                      <<"Upload and processing completed, but archive creation failed">>,
                      asset_id[i])
  /\ UNCHANGED <<file_paths, max_workers, options, mainpc, submitted, queue,
                 asset_id, ac_finished, yielded, results, nonbatch>>

\* a plausible slip: the record is built as on the other branch, with the
\* path download_archive returned, which is None after a failure
ArchiveInfo_with_path(i) ==
  [task |-> i, file |-> Filename(file_paths[i]), asset_id |-> asset_id[i],
   archive_id |-> archive_id[i], download_path |-> None]

\* self.results['archived'].append(archive_info), done by the worker thread
ArchiveInfo(i) ==
  [task |-> i, file |-> Filename(file_paths[i]), asset_id |-> asset_id[i],
   archive_id |-> archive_id[i]]

\* a plausible slip: the archived list is set to the new record
AppendArchived_replacing(info) ==
  results' = [results EXCEPT !.archived = <<info>>]

\* self.results['archived'].append(archive_info), lines 425, 434, 443
AppendArchived(info) ==
  results' = [results EXCEPT !.archived = Append(@, info)]

\* one iteration of wait_for_archive_completion and, when it returns,
\* lines 412-448
Step5_wait_for_archive_completion(i) ==
  /\ tpc[i] = "archiving"
  /\ \E o \in Fetches(elapsed[i], ArchTimeout) :
       LET r == wait_for_archive_completion(elapsed[i], o) IN
       /\ IF o = NoFetch THEN UNCHANGED trace
                         ELSE Log(i, "archive status", PollRes(r))
       /\ elapsed' = [elapsed EXCEPT ![i] = LoopClock(r)]
       /\ IF ~r.returned THEN UNCHANGED <<tpc, ret, finished, results>>
          ELSE IF r.success
            THEN IF options.download_archive
                   THEN Goto(i, "download") /\ UNCHANGED results
                   ELSE /\ AppendArchived(ArchiveInfo(i))
                        /\ Return(i, TRUE,
                             <<"Upload, processing, and archive completed successfully">>,
                             asset_id[i])
            ELSE /\ UNCHANGED results
                 /\ Return(i, TRUE,
                      <<"Upload and processing completed, but archive failed with status",
                        r.status>>,
                      asset_id[i])
  /\ UNCHANGED <<file_paths, max_workers, options, mainpc, submitted, queue,
                 asset_id, archive_id, ac_finished, yielded,
                 nonbatch>>

\* outcomes of download_archive, which catches every exception:
\* (True, path) or (False, None)
DownloadOutcomes == {"ok", "false"}

\* the path download_archive returns for the archive of task i
DownloadPath(i) == <<"converted", archive_id[i]>>

\* a plausible slip: a failed download makes the task a failure
Step6_download_archive_failing(i) ==
  /\ tpc[i] = "download"
  /\ \E o \in DownloadOutcomes :
       /\ Log(i, "download", o)
       /\ IF o = "ok"
            THEN /\ AppendArchived(
                      [task |-> i, file |-> Filename(file_paths[i]),
                       asset_id |-> asset_id[i],
                       archive_id |-> archive_id[i],
                       download_path |-> DownloadPath(i)])
                 /\ Return(i, TRUE,
                      <<"Upload, processing, archive creation and download completed successfully">>,
                      asset_id[i])
            ELSE /\ AppendArchived(ArchiveInfo(i))
                 /\ Return(i, FALSE,
                      <<"Upload, processing, and archive completed successfully, but download failed">>,
                      asset_id[i])
  /\ UNCHANGED <<file_paths, max_workers, options, mainpc, submitted, queue,
                 asset_id, archive_id, elapsed, ac_finished, yielded, nonbatch>>

Step6_download_archive(i) ==
  /\ tpc[i] = "download"
  /\ \E o \in DownloadOutcomes :
       /\ Log(i, "download", o)
       /\ IF o = "ok"
            THEN /\ AppendArchived(
                      [task |-> i, file |-> Filename(file_paths[i]),
                       asset_id |-> asset_id[i],
                       archive_id |-> archive_id[i],
                       download_path |-> DownloadPath(i)])
                 /\ Return(i, TRUE,
                      <<"Upload, processing, archive creation and download completed successfully">>,
                      asset_id[i])
            ELSE /\ AppendArchived(ArchiveInfo(i))
                 /\ Return(i, TRUE,
                      <<"Upload, processing, and archive completed successfully, but download failed">>,
                      asset_id[i])
  /\ UNCHANGED <<file_paths, max_workers, options, mainpc, submitted, queue,
                 asset_id, archive_id, elapsed, ac_finished, yielded, nonbatch>>

(***************************************************************************)
(* upload_files_parallel: the calling thread and the executor.             *)
(***************************************************************************)
\* ThreadPoolExecutor(max_workers=max_workers): a queued work item is taken
\* only by one of at most max_workers threads, each running one item at a time
\* a plausible slip: one thread per submitted task
WorkerAvailable_unbounded == TRUE

WorkerAvailable ==
  Cardinality({j \in Tasks : tpc[j] \in Running}) < max_workers

\* executor.submit(self.upload_gml_file, file_path, ...) for the next path
Submit ==
  /\ mainpc = "submit"
  /\ submitted < Len(file_paths)
  /\ submitted' = submitted + 1
  /\ queue' = Append(queue, submitted + 1)
  /\ tpc' = [tpc EXCEPT ![submitted + 1] = "queued"]
  /\ UNCHANGED <<file_paths, max_workers, options, mainpc, asset_id,
                 archive_id, elapsed, ret, trace, finished, ac_finished,
                 yielded, results, nonbatch>>

\* a worker thread takes the oldest work item and enters upload_gml_file
StartTask(i) ==
  /\ queue # <<>>
  /\ i = Head(queue)
  /\ WorkerAvailable
  /\ queue' = Tail(queue)
  /\ tpc' = [tpc EXCEPT ![i] = "create"]
  /\ UNCHANGED <<file_paths, max_workers, options, mainpc, submitted,
                 asset_id, archive_id, elapsed, ret, trace, finished,
                 ac_finished, yielded, results, nonbatch>>

\* as_completed(future_to_file) is entered: the futures already done are
\* set aside, to be yielded first
AsCompleted ==
  /\ mainpc = "submit"
  /\ submitted = Len(file_paths)
  /\ mainpc' = "collect"
  /\ ac_finished' = {i \in Tasks : tpc[i] = "done"}
  /\ UNCHANGED <<file_paths, max_workers, options, submitted, queue, tpc,
                 asset_id, archive_id, elapsed, ret, trace, finished,
                 yielded, results, nonbatch>>

\* the futures as_completed may yield next: any of those set aside at the
\* call (a set, in no particular order), then the others as they complete
NextCompleted ==
  IF ac_finished \ yielded # {}
    THEN ac_finished \ yielded
    ELSE IF finished = <<>> THEN {} ELSE {Head(finished)}

\* a plausible slip: the success record is built without the asset id
SuccessRecord_without_id(i) ==
  [task |-> i, file |-> ret[i].filename, message |-> ret[i].message,
   asset_id |-> None]

\* the record appended for the tuple a future returned (lines 508-525)
SuccessRecord(i) ==
  [task |-> i, file |-> ret[i].filename, message |-> ret[i].message,
   asset_id |-> ret[i].asset_id]

FailedRecord(i) ==
  [task |-> i, file |-> ret[i].filename, error |-> ret[i].message,
   asset_id |-> ret[i].asset_id]

\* a plausible slip: the success flag of the tuple is not tested
Record_flag_ignored(i) ==
  [results EXCEPT !.success = Append(@, SuccessRecord(i))]

\* a plausible slip: only successes are recorded
Record_successes_only(i) ==
  IF ret[i].success
    THEN [results EXCEPT !.success = Append(@, SuccessRecord(i))]
    ELSE results

\* a plausible slip: the records are kept by file name, so that a record of
\* the same file name is replaced
Record_keyed_by_file(i) ==
  LET Others(list) == SelectSeq(list, LAMBDA r : r.file # ret[i].filename) IN
  IF ret[i].success
    THEN [results EXCEPT !.success = Append(Others(@), SuccessRecord(i)),
                         !.failed = Others(@)]
    ELSE [results EXCEPT !.failed = Append(Others(@), FailedRecord(i)),
                         !.success = Others(@)]

\* lines 508-525: the record of the tuple a future returned is appended
Record(i) ==
  IF ret[i].success
    THEN [results EXCEPT !.success = Append(@, SuccessRecord(i))]
    ELSE [results EXCEPT !.failed = Append(@, FailedRecord(i))]

\* whether future.result() re-raises what upload_gml_file raised
Raises(i) == "exception" \in DOMAIN ret[i]

\* one round of `for future in as_completed(...)`: future.result() and the
\* append to self.results
Collect(i) ==
  /\ mainpc = "collect"
  /\ i \in NextCompleted
  /\ yielded' = yielded \cup {i}
  /\ finished' = IF i \in ac_finished THEN finished ELSE Tail(finished)
  /\ IF Raises(i)
       THEN mainpc' = "raised" /\ UNCHANGED results
       ELSE results' = Record(i) /\ UNCHANGED mainpc
  /\ UNCHANGED <<file_paths, max_workers, options, submitted, queue, tpc,
                 asset_id, archive_id, elapsed, ret, trace, ac_finished,
                 nonbatch>>

\* the loop and the with-blocks are left; the closing log lines compute
\* success_count / len(file_paths), a ZeroDivisionError for an empty list
Finish ==
  /\ mainpc = "collect"
  /\ yielded = Tasks
  /\ mainpc' = IF Len(file_paths) = 0 THEN "raised" ELSE "returned"
  /\ UNCHANGED <<file_paths, max_workers, options, submitted, queue, tpc,
                 asset_id, archive_id, elapsed, ret, trace, finished,
                 ac_finished, yielded, results, nonbatch>>

(***************************************************************************)
(* download_archive, called one call after the other on one output         *)
(* directory.  A name is a sequence of characters; ".zip" and "archive"    *)
(* stand for the character runs the code writes as a whole.                *)
(***************************************************************************)
\* largest number of download_archive calls in a row
MaxDownloads == 3

\* archive ids the calls are given
ArchiveIds == {"7", "8"}

\* the 'name' fields the server may report for an archive; Missing stands for
\* a record without the field
Missing == <<"<missing>">>

ArchiveNames ==
  {<<"a">>, <<"a", "/", " ">>, <<"a", "_", "1">>, <<"/">>, Missing}

\* c.isalnum() or c in (' ', '-', '_', '.')
Kept(c) == c \in {"a", "1", "7", "8", "archive"} \cup {" ", "-", "_", "."}

\* str.rstrip(): trailing white space removed
RECURSIVE rstrip(_)
rstrip(n) ==
  IF n # <<>> /\ n[Len(n)] = " " THEN rstrip(SubSeq(n, 1, Len(n) - 1)) ELSE n

\* lines 888-892: archive_info.get('name', f'archive_{archive_id}'), cleaned
\* for the file system, with the default again if nothing is left
safe_name(name, id) ==
  LET archive_name == IF name = Missing THEN <<"archive", "_", id>> ELSE name
      cleaned == rstrip(SelectSeq(archive_name, Kept))
  IN  IF cleaned = <<>> THEN <<"archive", "_", id>> ELSE cleaned

\* output_path / f"{name}.zip"
ZipPath(name) == Append(name, ".zip")

\* Path.stem: the final component without its last suffix
Stem(path) ==
  IF Len(path) > 1 /\ path[Len(path)] = ".zip"
    THEN SubSeq(path, 1, Len(path) - 1)
    ELSE path

\* a plausible slip: the path is used without looking whether it exists
Dedupe_unchecked(path, counter, fs) == path

\* lines 896-901: while archive_file_path.exists(): the stem of the current
\* path gets _<counter> appended
RECURSIVE Dedupe(_, _, _)
Dedupe(path, counter, fs) ==
  IF path \in DOMAIN fs
    THEN Dedupe(ZipPath(Stem(path) \o <<"_", ToString(counter)>>),
                counter + 1, fs)
    ELSE path

\* how a call can end: "failed" before the file is opened (no archive info,
\* status not COMPLETE, no download URL, a failed request); "empty" after
\* open(..., 'wb') with nothing written (the stream broke or was empty);
\* "ok" with a file of positive size
DownloadEnds == {"failed", "empty", "ok"}

\* open(archive_file_path, 'wb') and the writes of call number by
Written(fs, path, by, size) == (path :> [by |-> by, size |-> size]) @@ fs

download_archive ==
  /\ Len(dl_calls) < MaxDownloads
  /\ \E id \in ArchiveIds, name \in ArchiveNames, end \in DownloadEnds :
       LET by == Len(dl_calls) + 1
           safe == safe_name(name, id)
           path == Dedupe(ZipPath(safe), 1, dl_fs)
           call == [archive_id |-> id, name |-> name, safe_name |-> safe]
       IN  IF end = "failed"
             THEN /\ dl_fs' = dl_fs
                  /\ dl_calls' = Append(dl_calls,
                       call @@ [success |-> FALSE, path |-> None])
             ELSE IF end = "empty"
               THEN /\ dl_fs' = Written(dl_fs, path, by, 0)
                    /\ dl_calls' = Append(dl_calls,
                         call @@ [success |-> FALSE, path |-> None])
               ELSE /\ dl_fs' = Written(dl_fs, path, by, 1)
                    /\ dl_calls' = Append(dl_calls,
                         call @@ [success |-> TRUE, path |-> path])
  /\ UNCHANGED nondl

\* no download_archive call is under way: an empty output directory
NoDownload ==
  /\ dl_fs = <<>>
  /\ dl_calls = <<>>

(***************************************************************************)
(* The appends to self.results, statement by statement.  The worker        *)
(* threads reach `self.results['archived'].append(archive_info)` at the    *)
(* end of their workflow, the calling thread appends to                    *)
(* self.results['success'] for every future it is handed.  The helper has  *)
(* no lock: a thread executing an append statement is not kept from        *)
(* running by another thread executing one; the call of list.append is     *)
(* one step of the interpreter.                                            *)
(***************************************************************************)
AppendThreads == 1 .. MaxFiles

\* no thread is at work
NoAppend ==
  /\ ap_worker = <<>>
  /\ ap_info = <<>>
  /\ ap_main = [pc |-> "idle", future |-> 0]
  /\ ap_results = [success |-> <<>>, failed |-> <<>>, archived |-> <<>>]

\* lines 414-433: download_archive returned and the worker builds its
\* archive_info, with the download path or without; the append statement
\* is next
BuildArchiveInfo(w) ==
  /\ ap_worker[w] = "download"
  /\ \E downloaded \in BOOLEAN :
       ap_info' = [ap_info EXCEPT ![w] =
                     IF downloaded
                       THEN [task |-> w, download_path |-> <<"converted", w>>]
                       ELSE [task |-> w]]
  /\ ap_worker' = [ap_worker EXCEPT ![w] = "append"]
  /\ UNCHANGED <<ap_main, ap_results, nonap>>

\* lines 425/434/443 and the return: list.append is called
AppendArchive(w) ==
  /\ ap_worker[w] = "append"
  /\ ap_results' = [ap_results EXCEPT !.archived = Append(@, ap_info[w])]
  /\ ap_worker' = [ap_worker EXCEPT ![w] = "returned"]
  /\ UNCHANGED <<ap_info, ap_main, nonap>>

\* lines 505-513: as_completed hands over a completed future, the calling
\* thread takes its result and builds result_data; the append statement is
\* next
TakeResult(w) ==
  /\ ap_main.pc = "wait"
  /\ ap_worker[w] = "returned"
  /\ \A k \in 1 .. Len(ap_results.success) : ap_results.success[k].task # w
  /\ ap_main' = [pc |-> "append", future |-> w]
  /\ UNCHANGED <<ap_worker, ap_info, ap_results, nonap>>

\* line 514: self.results['success'].append(result_data)
AppendSuccess ==
  /\ ap_main.pc = "append"
  /\ ap_results' = [ap_results EXCEPT
                      !.success = Append(@, [task |-> ap_main.future])]
  /\ ap_main' = [pc |-> "wait", future |-> 0]
  /\ UNCHANGED <<ap_worker, ap_info, nonap>>

(***************************************************************************)
(* main() of src/main.py, and the end of the process that runs it.  The    *)
(* batch inside upload_files_parallel is seen from outside: every task     *)
(* that was started ends with one record, in results['success'] or in      *)
(* results['failed'].                                                      *)
(***************************************************************************)
\* the environment and the command line: whether CESIUM_ION_TOKEN is set,
\* --wait, --archive, --download, --workers, and the number of *.gml files
\* in the data folder
MainEnvs ==
  [token : BOOLEAN, wait : BOOLEAN, archive : BOOLEAN, download : BOOLEAN,
   workers : 0 .. MaxWorkers, files : 0 .. MaxFiles]

\* main() is not running
NoMain ==
  /\ mn_env = None
  /\ mn_pc = "idle"
  /\ mn_res = None
  /\ mn_out = ""
  /\ mn_exit = None

\* main() returns, by a return statement or at its end
MainReturns(out) ==
  /\ mn_out' = out
  /\ mn_pc' = "returned"

\* a plausible slip: only --archive without --wait is refused
ValidateArguments_archive_only ==
  /\ mn_pc = "validate"
  /\ IF mn_env.archive /\ ~mn_env.wait
       THEN MainReturns("usage error")
       ELSE mn_pc' = "construct" /\ UNCHANGED mn_out
  /\ UNCHANGED <<mn_env, mn_res, mn_exit, nonmn>>

\* lines 88-96: the argument checks before the try
ValidateArguments ==
  /\ mn_pc = "validate"
  /\ IF (mn_env.archive /\ ~mn_env.wait) \/ (mn_env.download /\ ~mn_env.archive)
       THEN MainReturns("usage error")
       ELSE mn_pc' = "construct" /\ UNCHANGED mn_out
  /\ UNCHANGED <<mn_env, mn_res, mn_exit, nonmn>>

\* `if not self.token` in CesiumAPIHelper.__init__
TokenMissing == ~mn_env.token

\* line 114: CesiumAPIHelper(...); __init__ raises ValueError without a
\* token, which the handler at 189-193 reports
ConstructHelper ==
  /\ mn_pc = "construct"
  /\ IF TokenMissing
       THEN MainReturns("Configuration Error")
       ELSE mn_pc' = "get_gml_files" /\ UNCHANGED mn_out
  /\ UNCHANGED <<mn_env, mn_res, mn_exit, nonmn>>

\* lines 117-122
GetGmlFiles ==
  /\ mn_pc = "get_gml_files"
  /\ IF mn_env.files = 0
       THEN MainReturns("No GML files found")
       ELSE mn_pc' = "upload" /\ UNCHANGED mn_out
  /\ UNCHANGED <<mn_env, mn_res, mn_exit, nonmn>>

\* line 136, up to ThreadPoolExecutor(max_workers=...), which raises
\* ValueError for max_workers <= 0; the handler at 189-193 reports it
EnterUpload ==
  /\ mn_pc = "upload"
  /\ IF mn_env.workers <= 0
       THEN MainReturns("Configuration Error")
       ELSE mn_pc' = "tasks" /\ UNCHANGED mn_out
  /\ UNCHANGED <<mn_env, mn_res, mn_exit, nonmn>>

\* a task of the batch runs and its record is appended
RunTask ==
  /\ mn_pc = "tasks"
  /\ mn_res.started < mn_env.files
  /\ \E ok \in BOOLEAN :
       mn_res' = [started |-> mn_res.started + 1,
                  success |-> mn_res.success + (IF ok THEN 1 ELSE 0),
                  failed |-> mn_res.failed + (IF ok THEN 0 ELSE 1)]
  /\ UNCHANGED <<mn_env, mn_pc, mn_out, mn_exit, nonmn>>

\* lines 164-187: the closing message, and main() reaches its end
Summary ==
  /\ mn_pc = "tasks"
  /\ mn_res.started = mn_env.files
  /\ MainReturns(IF mn_res.success = mn_env.files
                   THEN "All uploads completed successfully"
                   ELSE IF mn_res.success > 0 THEN "Partial success"
                   ELSE "All uploads failed")
  /\ UNCHANGED <<mn_env, mn_res, mn_exit, nonmn>>

\* no interrupt has arrived in the upload run
NoBatchInterrupt == mn_int = FALSE

\* the classes `except Exception` catches: KeyboardInterrupt derives from
\* BaseException, not from Exception
IsException(exc) == exc # "KeyboardInterrupt"

\* Ctrl+C while upload_files_parallel waits in as_completed (line 505) and
\* the workers run: KeyboardInterrupt is raised in the calling thread.  The
\* loop at 505-527 has no handler and the executor's __exit__ lets the
\* workers end, but the records of their tasks are appended by that loop
\* only.
InterruptBatch ==
  /\ mn_pc = "tasks"
  /\ mn_res.started < mn_env.files
  /\ ~mn_int
  /\ mn_int' = TRUE
  /\ mn_pc' = "unwinding"
  /\ UNCHANGED <<mn_env, mn_res, mn_out, mn_exit, nonmi>>

\* main()'s handlers, lines 189-196: `except ValueError`, `except Exception`;
\* an exception neither catches leaves main() past the finally at 197
UnwindMain ==
  /\ mn_pc = "unwinding"
  /\ IF IsException("KeyboardInterrupt")
       THEN MainReturns("Unexpected error")
       ELSE mn_pc' = "raised" /\ mn_out' = "KeyboardInterrupt"
  /\ UNCHANGED <<mn_env, mn_res, mn_exit, nonmn>>

\* lines 201-202: main() has returned, or an exception left it, and the
\* script ends; main.py never calls sys.exit, so the status is 0 after a
\* return and that of an interpreter ended by KeyboardInterrupt otherwise
ExitProcess ==
  /\ mn_pc \in {"returned", "raised"}
  /\ mn_exit' = IF mn_pc = "returned" THEN 0 ELSE 130
  /\ mn_pc' = "exited"
  /\ UNCHANGED <<mn_env, mn_res, mn_out, nonmn>>

(***************************************************************************)
(* monitor_assets (src/check_status.py): rounds of get_asset_status over    *)
(* the given asset ids, with time.sleep(interval) between rounds, until     *)
(* every fetched status is final.  Ctrl+C raises KeyboardInterrupt in the   *)
(* thread running monitor_assets, at whatever statement it is executing.    *)
(***************************************************************************)
\* largest number of asset ids given to monitor_assets
MaxAssets == 2
\* largest number of rounds of the monitor loop that are followed
MaxRounds == 2

\* the statuses the server holds for a monitored asset
ServerStatuses == {"IN_PROGRESS", "COMPLETE", "ERROR"}

\* the test at line 167: a status that keeps the monitor going
StillProcessing(st) == st \notin {"COMPLETE", "ERROR", "DATA_ERROR"}

\* what get_asset_status returns for None
NoAsset == "<None>"
\* no exception is being raised
NoException == ""
\* no interrupt has arrived
NoInterrupt == [pc |-> "", fetches |-> 0]

\* monitor_assets is not running
NoMonitor ==
  /\ mo_ids = 0
  /\ mo_server = <<>>
  /\ mo_pc = "idle"
  /\ mo_idx = 0
  /\ mo_all = TRUE
  /\ mo_round = 0
  /\ mo_log = <<>>
  /\ mo_exc = NoException
  /\ mo_int = NoInterrupt
  /\ mo_out = ""

\* get_asset_status with a request that always yields the field's default
get_asset_status_default(id, ok) ==
  IF ok THEN "UNKNOWN" ELSE NoAsset

\* get_asset_status (cesium_helper.py 141-167): one GET of the asset; the
\* record the server holds is returned, None on a RequestException
get_asset_status(id, ok) ==
  IF ok THEN mo_server[id] ELSE NoAsset

\* the statements of monitor_assets inside `try:` (line 149) with sleep left
\* outside
Guarded_without_sleep(pc) == pc \in {"round", "fetch", "check"}

\* the statements of monitor_assets inside `try:` (lines 149-181)
Guarded(pc) == pc \in {"round", "fetch", "check", "sleep"}

\* lines 145-147: the banner, before the try
Banner ==
  /\ mo_pc = "banner"
  /\ mo_exc = NoException
  /\ mo_pc' = "round"
  /\ UNCHANGED <<mo_ids, mo_server, mo_idx, mo_all, mo_round, mo_log, mo_exc,
                 mo_int, mo_out, nonmon>>

\* lines 151-156: a round begins
BeginRound ==
  /\ mo_pc = "round"
  /\ mo_exc = NoException
  /\ mo_all' = TRUE
  /\ mo_idx' = 1
  /\ mo_round' = mo_round + 1
  /\ mo_pc' = IF mo_ids = 0 THEN "check" ELSE "fetch"
  /\ UNCHANGED <<mo_ids, mo_server, mo_log, mo_exc, mo_int, mo_out, nonmon>>

\* lines 157-174: the status of one asset is fetched and printed
FetchStatus ==
  /\ mo_pc = "fetch"
  /\ mo_exc = NoException
  /\ \E ok \in BOOLEAN :
       LET asset == get_asset_status(mo_idx, ok) IN
         /\ mo_log' = Append(mo_log, [id |-> mo_idx, server |-> mo_server[mo_idx],
                                      res |-> asset])
         /\ mo_all' = IF asset # NoAsset /\ StillProcessing(asset) THEN FALSE ELSE mo_all
  /\ mo_idx' = mo_idx + 1
  /\ mo_pc' = IF mo_idx = mo_ids THEN "check" ELSE "fetch"
  /\ UNCHANGED <<mo_ids, mo_server, mo_round, mo_exc, mo_int, mo_out, nonmon>>

\* lines 176-180: the loop ends when no fetched status was still processing
CheckRound ==
  /\ mo_pc = "check"
  /\ mo_exc = NoException
  /\ IF mo_all
       THEN mo_pc' = "returned" /\ mo_out' = "All monitored assets have completed"
       ELSE mo_pc' = "sleep" /\ UNCHANGED mo_out
  /\ UNCHANGED <<mo_ids, mo_server, mo_idx, mo_all, mo_round, mo_log, mo_exc,
                 mo_int, nonmon>>

\* line 181: time.sleep(interval) returns
Sleep ==
  /\ mo_pc = "sleep"
  /\ mo_exc = NoException
  /\ mo_round < MaxRounds
  /\ mo_pc' = "round"
  /\ UNCHANGED <<mo_ids, mo_server, mo_idx, mo_all, mo_round, mo_log, mo_exc,
                 mo_int, mo_out, nonmon>>

\* the server finishes processing an asset
ServerProgress ==
  /\ mo_pc \in {"banner", "round", "fetch", "check", "sleep"}
  /\ \E a \in 1 .. mo_ids :
       /\ mo_server[a] = "IN_PROGRESS"
       /\ \E st \in {"COMPLETE", "ERROR"} :
            mo_server' = [mo_server EXCEPT ![a] = st]
  /\ UNCHANGED <<mo_ids, mo_pc, mo_idx, mo_all, mo_round, mo_log, mo_exc,
                 mo_int, mo_out, nonmon>>

\* Ctrl+C: KeyboardInterrupt is raised at the statement being executed
Interrupt ==
  /\ mo_pc \in {"banner", "round", "fetch", "check", "sleep"}
  /\ mo_exc = NoException
  /\ mo_int = NoInterrupt
  /\ mo_exc' = "KeyboardInterrupt"
  /\ mo_int' = [pc |-> mo_pc, fetches |-> Len(mo_log)]
  /\ UNCHANGED <<mo_ids, mo_server, mo_pc, mo_idx, mo_all, mo_round, mo_log,
                 mo_out, nonmon>>

\* the exception travels up: get_asset_status catches RequestException
\* only (line 164), monitor_assets catches KeyboardInterrupt raised inside
\* its try (line 183) and returns
Unwind ==
  /\ mo_exc # NoException
  /\ IF Guarded(mo_pc)
       THEN mo_pc' = "returned" /\ mo_out' = "Monitoring stopped by user"
       ELSE mo_pc' = "raised" /\ mo_out' = mo_exc
  /\ mo_exc' = NoException
  /\ UNCHANGED <<mo_ids, mo_server, mo_idx, mo_all, mo_round, mo_log, mo_int,
                 nonmon>>

(***************************************************************************)
(* download_archive run by two worker threads of one batch at a time       *)
(* (upload_gml_file calls it at line 416 from every worker, all with the    *)
(* default output directory).  The test archive_file_path.exists() (898),   *)
(* the request (906) and open(archive_file_path, 'wb') (911) are separate   *)
(* statements: another thread can run between them.                        *)
(***************************************************************************)
\* the two workers
DownloadWorkers == {1, 2}

\* the archive each worker downloads
WorkerArchive(w) == IF w = 1 THEN "7" ELSE "8"

\* no concurrent download is under way
NoConcurrentDownload ==
  /\ cd_fs = <<>>
  /\ cd_w = <<>>

\* what get_archive_info can give download_archive at line 853: None (a
\* RequestException caught inside), an exception of another class, or the
\* archive's record with its status
InfoOutcomes == {"<None>", Raised, "COMPLETE", "IN_PROGRESS", "FAILED"}

\* a worker entering download_archive for an archive of the given name
EnterDownload(name) ==
  [pc |-> "info", name |-> name, info |-> "", reqs |-> <<>>,
   safe_name |-> <<>>, path |-> <<>>, success |-> FALSE, ret |-> None]

\* `return False, None`, by a return statement or from one of the handlers
\* at 931-937
DownloadFails(wr) == [wr EXCEPT !.pc = "done", !.success = FALSE, !.ret = None]

\* a plausible slip: the status of the archive is not looked at
InfoReady_unchecked(o) == o \notin {"<None>", Raised}

\* lines 854-860: the archive info is there and its status is COMPLETE
InfoReady(o) == o = "COMPLETE"

\* lines 853-860: the archive info is fetched and its status tested
FetchArchiveInfo(w) ==
  /\ cd_w[w].pc = "info"
  /\ \E o \in InfoOutcomes :
       LET wr == [cd_w[w] EXCEPT !.info = o, !.reqs = Append(@, "info")] IN
         cd_w' = [cd_w EXCEPT ![w] =
                    IF InfoReady(o) THEN [wr EXCEPT !.pc = "url"]
                                    ELSE DownloadFails(wr)]
  /\ UNCHANGED <<cd_fs, noncd>>

\* lines 863-883: the request for the download URL; a failed request or a
\* response without a URL ends the call
RequestUrl(w) ==
  /\ cd_w[w].pc = "url"
  /\ \E ok \in BOOLEAN :
       LET wr == [cd_w[w] EXCEPT !.reqs = Append(@, "url")] IN
         cd_w' = [cd_w EXCEPT ![w] =
                    IF ok THEN [wr EXCEPT !.pc = "name"] ELSE DownloadFails(wr)]
  /\ UNCHANGED <<cd_fs, noncd>>

\* lines 888-901: the name is cleaned and a path that does not exist yet is
\* looked for
ChoosePath(w) ==
  /\ cd_w[w].pc = "name"
  /\ LET safe == safe_name(cd_w[w].name, WorkerArchive(w)) IN
       cd_w' = [cd_w EXCEPT ![w].pc = "request",
                            ![w].safe_name = safe,
                            ![w].path = Dedupe(ZipPath(safe), 1, cd_fs)]
  /\ UNCHANGED <<cd_fs, noncd>>

\* lines 906-909: the download request; a failure ends the call with
\* (False, None)
RequestDownload(w) ==
  /\ cd_w[w].pc = "request"
  /\ \E ok \in BOOLEAN :
       LET wr == [cd_w[w] EXCEPT !.reqs = Append(@, "download")] IN
         cd_w' = [cd_w EXCEPT ![w] =
                    IF ok THEN [wr EXCEPT !.pc = "open"] ELSE DownloadFails(wr)]
  /\ UNCHANGED <<cd_fs, noncd>>

\* lines 911-921: open(archive_file_path, 'wb') creates the file or empties
\* the one that is there and the chunks are written; a stream that breaks
\* raises and ends the call in a handler
WriteArchive(w) ==
  /\ cd_w[w].pc = "open"
  /\ \E size \in {0, 1}, broke \in BOOLEAN :
       /\ cd_fs' = Written(cd_fs, cd_w[w].path, w, size)
       /\ cd_w' = [cd_w EXCEPT ![w] =
                     IF broke THEN DownloadFails(@) ELSE [@ EXCEPT !.pc = "verify"]]
  /\ UNCHANGED noncd

\* line 924: archive_file_path.exists() and st_size > 0
Verified(path) == path \in DOMAIN cd_fs /\ cd_fs[path].size > 0

\* lines 924-930: (True, path) if the file is there and not empty
VerifyArchive(w) ==
  /\ cd_w[w].pc = "verify"
  /\ cd_w' = [cd_w EXCEPT ![w] =
                IF Verified(cd_w[w].path)
                  THEN [cd_w[w] EXCEPT !.pc = "done", !.success = TRUE,
                                       !.ret = cd_w[w].path]
                  ELSE DownloadFails(cd_w[w])]
  /\ UNCHANGED <<cd_fs, noncd>>

(***************************************************************************)
(* download_archives.py without --list-only and without --archive-ids:     *)
(* one call of download_all_completed_archives.                            *)
(***************************************************************************)
\* the most archives the server lists
MaxArchives == 3

ArchiveStatuses == {"COMPLETE", "IN_PROGRESS", "FAILED"}

\* what GET /archives may hold: for each archive, named by its position,
\* its status
ArchiveListings ==
  UNION {[1 .. n -> ArchiveStatuses] : n \in 0 .. MaxArchives}

NoDownloadAll ==
  /\ da_server = <<>>
  /\ da_pc = "idle"
  /\ da_attempts = <<>>
  /\ da_ret = <<>>
  /\ da_exc = NoException
  /\ da_exit = None

\* the methods class CesiumAPIHelper defines (cesium_helper.py:74-1066);
\* the class has no __getattr__ and nothing sets attributes on it
HelperMethods ==
  {"__init__", "_log", "get_gml_files", "get_cesium_ion_assets_list",
   "get_asset_status", "create_asset_metadata", "upload_file_to_s3",
   "notify_upload_complete", "wait_for_processing", "upload_gml_file",
   "upload_files_parallel", "print_summary", "get_asset_ids_from_results",
   "create_archive", "wait_for_archive_completion",
   "create_archives_for_completed_assets", "download_archive",
   "get_archive_info", "download_all_completed_archives"}

\* self.<name>: the attribute lookup succeeds for a method of the class and
\* raises AttributeError otherwise
HasMethod(name) == name \in HelperMethods

\* lines 988-991: the positions of the listed archives whose status is
\* COMPLETE, in the order of the listing
RECURSIVE CompletedArchives(_, _)
CompletedArchives(listing, k) ==
  IF k > Len(listing) THEN <<>>
  ELSE IF listing[k] = "COMPLETE"
    THEN <<k>> \o CompletedArchives(listing, k + 1)
    ELSE CompletedArchives(listing, k + 1)

\* lines 1005-1041: one record per archive of the list, whether
\* download_archive returned (True, path), (False, None) or raised
DownloadRecord(id, outcome) ==
  [archive_id |-> id,
   success |-> outcome = "ok",
   file_path |-> IF outcome = "ok" THEN ZipPath(<<"a">>) ELSE None]

\* download_archives.py:138-141: the script calls the method
CallDownloadAll ==
  /\ da_pc = "main"
  /\ da_pc' = "list"
  /\ UNCHANGED <<da_server, da_attempts, da_ret, da_exc, da_exit, nonda>>

\* lines 978-1066. Line 981 looks up self.list_archived_assets: the lookup
\* raises AttributeError when the class has no such method, and nothing in
\* download_all_completed_archives catches it there; otherwise the listing
\* is filtered (988-996) and each COMPLETE archive is downloaded in turn
\* (1005-1041)
DownloadAllCompleted ==
  /\ da_pc = "list"
  /\ IF HasMethod("list_archived_assets")
       THEN \E outs \in [1 .. Len(da_server) -> {"ok", "false", "raise"}] :
              LET completed == CompletedArchives(da_server, 1) IN
                /\ da_attempts' = completed
                /\ da_ret' = [k \in 1 .. Len(completed) |->
                                DownloadRecord(completed[k], outs[completed[k]])]
                /\ da_exc' = NoException
                /\ da_pc' = "returned"
       ELSE /\ da_exc' = "AttributeError"
            /\ da_pc' = "raised"
            /\ UNCHANGED <<da_attempts, da_ret>>
  /\ UNCHANGED <<da_server, da_exit, nonda>>

\* download_archives.py:143-148 after a return; 155-157 (except Exception:
\* "Unexpected error", sys.exit(1)) after an exception
EndDownloadScript ==
  /\ da_pc \in {"returned", "raised"}
  /\ da_pc' = "exited"
  /\ da_exit' = IF da_pc = "raised" THEN 1 ELSE 0
  /\ UNCHANGED <<da_server, da_attempts, da_ret, da_exc, nonda>>

(***************************************************************************)
(* create_archives_for_completed_assets called with a list of asset ids.   *)
(***************************************************************************)
\* the longest list of asset ids given to the call
MaxArchiveAssets == 3

NoCreateArchives ==
  /\ ca_ids = <<>>
  /\ ca_pc = "idle"
  /\ ca_idx = 0
  /\ ca_fetched = <<>>
  /\ ca_completed = <<>>
  /\ ca_requests = <<>>
  /\ ca_polls = <<>>
  /\ ca_archived = <<>>

\* what wait_for_archive_completion returns: the returns of its loop body
\* and the return after the budget is used up
ArchivePollReturns ==
  {wait_for_archive_completion(0, o) : o \in {"COMPLETE", "ERROR", "FAILED"}}
    \cup {wait_for_archive_completion(ArchTimeout, NoFetch)}

\* line 770: asset_data and asset_data.get('status') == 'COMPLETE'
ReadyForArchive(o) == o # RequestFailed /\ o = "COMPLETE"

\* lines 768-776, one iteration: the status of the next id is fetched with
\* no handler around the call, so an exception that get_asset_status lets
\* through leaves create_archives_for_completed_assets
CheckAssetStatus ==
  /\ ca_pc = "check"
  /\ ca_idx <= Len(ca_ids)
  /\ \E o \in FetchOutcomes :
       /\ ca_fetched' = Append(ca_fetched, o)
       /\ IF o = Raised
            THEN /\ ca_pc' = "raised"
                 /\ UNCHANGED <<ca_idx, ca_completed>>
            ELSE /\ ca_pc' = "check"
                 /\ ca_idx' = ca_idx + 1
                 /\ ca_completed' =
                      IF ReadyForArchive(o)
                        THEN Append(ca_completed, ca_ids[ca_idx])
                        ELSE ca_completed
  /\ UNCHANGED <<ca_ids, ca_requests, ca_polls, ca_archived, nonca>>

\* lines 778-787: return when no asset is completed, else start the loop
\* over completed_assets
EndStatusCheck ==
  /\ ca_pc = "check"
  /\ ca_idx > Len(ca_ids)
  /\ ca_pc' = IF ca_completed = <<>> THEN "done" ELSE "create"
  /\ ca_idx' = 1
  /\ UNCHANGED <<ca_ids, ca_fetched, ca_completed, ca_requests, ca_polls,
                 ca_archived, nonca>>

\* lines 789-793 and 808-816: create_archive for the next completed asset;
\* unless it gave an archive id the asset is logged as failed, by the else
\* branch or by `except Exception`, and the loop goes on
RequestArchive ==
  /\ ca_pc = "create"
  /\ ca_idx <= Len(ca_completed)
  /\ ca_requests' = Append(ca_requests, ca_completed[ca_idx])
  /\ \E o \in ArchiveOutcomes :
       IF o = "ok"
         THEN ca_pc' = "wait" /\ UNCHANGED ca_idx
         ELSE ca_pc' = "create" /\ ca_idx' = ca_idx + 1
  /\ UNCHANGED <<ca_ids, ca_fetched, ca_completed, ca_polls, ca_archived,
                 nonca>>

\* lines 795-806 and 816: the archive poll returns; the record is appended
\* if it returned success
AwaitArchive ==
  /\ ca_pc = "wait"
  /\ \E r \in ArchivePollReturns :
       /\ ca_polls' = Append(ca_polls,
                             [asset_id |-> ca_completed[ca_idx],
                              status |-> r.status])
       /\ ca_archived' =
            IF r.success
              THEN Append(ca_archived,
                          [asset_id |-> ca_completed[ca_idx],
                           archive_id |-> ca_completed[ca_idx]])
              ELSE ca_archived
  /\ ca_pc' = "create"
  /\ ca_idx' = ca_idx + 1
  /\ UNCHANGED <<ca_ids, ca_fetched, ca_completed, ca_requests, nonca>>

\* lines 818-832: after the last completed asset the summary is printed
EndArchiving ==
  /\ ca_pc = "create"
  /\ ca_idx > Len(ca_completed)
  /\ ca_pc' = "done"
  /\ UNCHANGED <<ca_ids, ca_idx, ca_fetched, ca_completed, ca_requests,
                 ca_polls, ca_archived, nonca>>

NoBatch ==
  /\ file_paths = <<>>
  /\ max_workers = 1
  /\ options = [wait_for_completion |-> FALSE, create_archive |-> FALSE,
                download_archive |-> FALSE]
  /\ mainpc = "idle"
  /\ submitted = 0
  /\ queue = <<>>
  /\ tpc = <<>>
  /\ asset_id = <<>>
  /\ archive_id = <<>>
  /\ elapsed = <<>>
  /\ ret = <<>>
  /\ trace = <<>>
  /\ finished = <<>>
  /\ ac_finished = {}
  /\ yielded = {}
  /\ results = [success |-> <<>>, failed |-> <<>>, archived |-> <<>>]

InitPoll ==
  /\ NoBatch
  /\ NoDownload
  /\ NoAppend
  /\ NoMain
  /\ NoCreateArchives
  /\ NoDownloadAll
  /\ NoConcurrentDownload
  /\ NoBatchInterrupt
  /\ NoMonitor
  /\ wfp = LoopStart
  /\ wac = LoopStart

NextPoll == PollProcessing \/ PollArchive

SpecPoll == InitPoll /\ [][NextPoll]_vars

InitDownload ==
  /\ NoBatch
  /\ wfp = [LoopStart EXCEPT !.pc = "idle"]
  /\ wac = [LoopStart EXCEPT !.pc = "idle"]
  /\ NoDownload
  /\ NoAppend
  /\ NoMain
  /\ NoCreateArchives
  /\ NoDownloadAll
  /\ NoConcurrentDownload
  /\ NoBatchInterrupt
  /\ NoMonitor

NextDownload == download_archive

SpecDownload == InitDownload /\ [][NextDownload]_vars

\* every worker has come through archive completion; the calling thread
\* waits in as_completed
InitAppend ==
  /\ NoBatch
  /\ wfp = [LoopStart EXCEPT !.pc = "idle"]
  /\ wac = [LoopStart EXCEPT !.pc = "idle"]
  /\ NoDownload
  /\ ap_worker = [w \in AppendThreads |-> "download"]
  /\ ap_info = [w \in AppendThreads |-> None]
  /\ ap_main = [pc |-> "wait", future |-> 0]
  /\ ap_results = [success |-> <<>>, failed |-> <<>>, archived |-> <<>>]
  /\ NoMain
  /\ NoCreateArchives
  /\ NoDownloadAll
  /\ NoConcurrentDownload
  /\ NoBatchInterrupt
  /\ NoMonitor

NextAppend ==
  \/ AppendSuccess
  \/ \E w \in AppendThreads :
       \/ BuildArchiveInfo(w)
       \/ AppendArchive(w)
       \/ TakeResult(w)

SpecAppend == InitAppend /\ [][NextAppend]_vars

\* the script is started
InitMain ==
  /\ NoBatch
  /\ wfp = [LoopStart EXCEPT !.pc = "idle"]
  /\ wac = [LoopStart EXCEPT !.pc = "idle"]
  /\ NoDownload
  /\ NoAppend
  /\ mn_env \in MainEnvs
  /\ mn_pc = "validate"
  /\ mn_res = [started |-> 0, success |-> 0, failed |-> 0]
  /\ mn_out = ""
  /\ mn_exit = None
  /\ mn_int = FALSE
  /\ NoMonitor
  /\ NoConcurrentDownload
  /\ NoDownloadAll
  /\ NoCreateArchives

NextMain ==
  \/ ValidateArguments
  \/ ConstructHelper
  \/ GetGmlFiles
  \/ EnterUpload
  \/ RunTask
  \/ Summary
  \/ InterruptBatch
  \/ UnwindMain
  \/ ExitProcess

SpecMain == InitMain /\ [][NextMain]_vars

\* monitor_assets is called with some asset ids
InitMonitor ==
  /\ NoBatch
  /\ wfp = [LoopStart EXCEPT !.pc = "idle"]
  /\ wac = [LoopStart EXCEPT !.pc = "idle"]
  /\ NoDownload
  /\ NoAppend
  /\ NoMain
  /\ NoCreateArchives
  /\ NoDownloadAll
  /\ NoConcurrentDownload
  /\ NoBatchInterrupt
  /\ mo_ids \in 0 .. MaxAssets
  /\ mo_server \in [1 .. mo_ids -> ServerStatuses]
  /\ mo_pc = "banner"
  /\ mo_idx = 0
  /\ mo_all = TRUE
  /\ mo_round = 0
  /\ mo_log = <<>>
  /\ mo_exc = NoException
  /\ mo_int = NoInterrupt
  /\ mo_out = ""

NextMonitor ==
  \/ Banner
  \/ BeginRound
  \/ FetchStatus
  \/ CheckRound
  \/ Sleep
  \/ ServerProgress
  \/ Interrupt
  \/ Unwind

SpecMonitor == InitMonitor /\ [][NextMonitor]_vars

\* two workers enter download_archive; the output directory is empty or
\* holds a file of an earlier run
InitConcurrentDownload ==
  /\ NoBatch
  /\ wfp = [LoopStart EXCEPT !.pc = "idle"]
  /\ wac = [LoopStart EXCEPT !.pc = "idle"]
  /\ NoDownload
  /\ NoAppend
  /\ NoMain
  /\ NoCreateArchives
  /\ NoDownloadAll
  /\ NoBatchInterrupt
  /\ NoMonitor
  /\ cd_fs \in {<<>>, Written(<<>>, ZipPath(<<"a">>), 0, 1)}
  /\ cd_w \in [DownloadWorkers -> {EnterDownload(n) : n \in ArchiveNames}]

NextConcurrentDownload ==
  \E w \in DownloadWorkers :
    \/ FetchArchiveInfo(w)
    \/ RequestUrl(w)
    \/ ChoosePath(w)
    \/ RequestDownload(w)
    \/ WriteArchive(w)
    \/ VerifyArchive(w)

SpecConcurrentDownload ==
  InitConcurrentDownload /\ [][NextConcurrentDownload]_vars

\* the script is about to call download_all_completed_archives; the server
\* lists up to MaxArchives archives in any statuses
InitDownloadAll ==
  /\ NoBatch
  /\ wfp = [LoopStart EXCEPT !.pc = "idle"]
  /\ wac = [LoopStart EXCEPT !.pc = "idle"]
  /\ NoDownload
  /\ NoAppend
  /\ NoMain
  /\ NoCreateArchives
  /\ NoBatchInterrupt
  /\ NoMonitor
  /\ NoConcurrentDownload
  /\ da_server \in ArchiveListings
  /\ da_pc = "main"
  /\ da_attempts = <<>>
  /\ da_ret = <<>>
  /\ da_exc = NoException
  /\ da_exit = None

NextDownloadAll ==
  \/ CallDownloadAll
  \/ DownloadAllCompleted
  \/ EndDownloadScript

SpecDownloadAll == InitDownloadAll /\ [][NextDownloadAll]_vars

\* the call is given up to MaxArchiveAssets asset ids, on a helper whose
\* archived list is empty or holds the record of an earlier call
InitCreateArchives ==
  /\ NoBatch
  /\ wfp = [LoopStart EXCEPT !.pc = "idle"]
  /\ wac = [LoopStart EXCEPT !.pc = "idle"]
  /\ NoDownload
  /\ NoAppend
  /\ NoMain
  /\ NoBatchInterrupt
  /\ NoMonitor
  /\ NoConcurrentDownload
  /\ NoDownloadAll
  /\ ca_ids \in {[k \in 1 .. n |-> k] : n \in 0 .. MaxArchiveAssets}
  /\ ca_pc = "check"
  /\ ca_idx = 1
  /\ ca_fetched = <<>>
  /\ ca_completed = <<>>
  /\ ca_requests = <<>>
  /\ ca_polls = <<>>
  /\ ca_archived \in {<<>>, <<[asset_id |-> 0, archive_id |-> 0]>>}

NextCreateArchives ==
  \/ CheckAssetStatus
  \/ EndStatusCheck
  \/ RequestArchive
  \/ AwaitArchive
  \/ EndArchiving

SpecCreateArchives == InitCreateArchives /\ [][NextCreateArchives]_vars

(***************************************************************************)
(* A batch run: a freshly constructed helper and one call of               *)
(* upload_files_parallel.                                                  *)
(***************************************************************************)
\* The file lists given to a batch: for every length up to MaxFiles the
\* list of that many distinct paths, and a list that gives one path twice.
\* The code never looks into a path beyond Path(file_path).name.
FileLists ==
  {[i \in 1 .. n |-> PathOrder[i]] : n \in 0 .. MaxFiles}
    \cup {<<PathOrder[1], PathOrder[1]>>}

Init ==
  /\ file_paths \in FileLists
  /\ max_workers \in 1 .. MaxWorkers
  /\ options \in [wait_for_completion : BOOLEAN, create_archive : BOOLEAN,
                  download_archive : BOOLEAN]
  /\ mainpc = "submit"
  /\ submitted = 0
  /\ queue = <<>>
  /\ tpc = [i \in Tasks |-> "new"]
  /\ asset_id = [i \in Tasks |-> None]
  /\ archive_id = [i \in Tasks |-> None]
  /\ elapsed = [i \in Tasks |-> 0]
  /\ ret = [i \in Tasks |-> None]
  /\ trace = [i \in Tasks |-> <<>>]
  /\ finished = <<>>
  /\ ac_finished = {}
  /\ yielded = {}
  /\ results = [success |-> <<>>, failed |-> <<>>, archived |-> <<>>]
  /\ wfp = [LoopStart EXCEPT !.pc = "idle"]
  /\ wac = [LoopStart EXCEPT !.pc = "idle"]
  /\ NoDownload
  /\ NoAppend
  /\ NoMain
  /\ NoCreateArchives
  /\ NoDownloadAll
  /\ NoConcurrentDownload
  /\ NoBatchInterrupt
  /\ NoMonitor

Next ==
  \/ Submit
  \/ AsCompleted
  \/ Finish
  \/ \E i \in Tasks :
       \/ StartTask(i)
       \/ Step1_create_asset_metadata(i)
       \/ Step2_upload_file_to_s3(i)
       \/ Step3_notify_upload_complete(i)
       \/ Step4_wait_for_processing(i)
       \/ Step5_create_archive(i)
       \/ Step5_wait_for_archive_completion(i)
       \/ Step6_download_archive(i)
       \/ Collect(i)

Spec == Init /\ [][Next]_vars

(***************************************************************************)
(* A batch run in which time advances and every request that carries a     *)
(* timeout returns or fails within it.  Every request of the helper is     *)
(* made with timeout=30, and boto3's client has its default timeouts, but  *)
(* for one: requests.get(download_url, stream=True) in download_archive    *)
(* is made without a timeout, so nothing makes that step end.              *)
(***************************************************************************)
\* the steps of a worker on task i that are bound to end
TimedStep(i) ==
  /\ i \in Tasks
  /\ \/ StartTask(i)
     \/ Step1_create_asset_metadata(i)
     \/ Step2_upload_file_to_s3(i)
     \/ Step3_notify_upload_complete(i)
     \/ Step4_wait_for_processing(i)
     \/ Step5_create_archive(i)
     \/ Step5_wait_for_archive_completion(i)

\* the steps of the thread that runs upload_files_parallel
MainStep ==
  \/ Submit
  \/ AsCompleted
  \/ Finish
  \/ \E i \in Tasks : Collect(i)

Fairness ==
  /\ WF_vars(MainStep)
  /\ \A i \in 1 .. MaxFiles : WF_vars(TimedStep(i))

SpecFair == Init /\ [][Next]_vars /\ Fairness

(***************************************************************************)
(* Properties.                                                             *)
(***************************************************************************)
Last(q) == q[Len(q)]

Range(q) == {q[k] : k \in 1 .. Len(q)}

\* how many records of a result list come from task i
Count(list, i) == Cardinality({k \in 1 .. Len(list) : list[k].task = i})

\* tasks inside upload_gml_file
RunningTasks == {i \in Tasks : tpc[i] \in Running}

\* C1: when upload_files_parallel returns, the success and failed lists
\* together hold as many records as paths were given, and every task has
\* exactly one record, in exactly one of the two lists.
C1_EveryTaskRecordedOnce ==
  mainpc = "returned" =>
    /\ Len(results.success) + Len(results.failed) = Len(file_paths)
    /\ \A i \in Tasks :
         Count(results.success, i) + Count(results.failed, i) = 1

C1_Witness ==
  /\ mainpc = "returned"
  /\ Len(file_paths) = 2
  /\ Len(results.success) = 1
  /\ Len(results.failed) = 1

\* the step at which a task that returned a failure stopped
FailedAt(i) == Last(trace[i]).step

\* C2 (as claimed): a task that returned success = False reports no asset id
\* if it failed at metadata creation and reports its asset id if it failed
\* at any later step, unexpected exceptions included.
C2_AssetIdKnownAfterMetadata ==
  \A i \in Tasks :
    (tpc[i] = "done" /\ ~ret[i].success) =>
      /\ FailedAt(i) = "create" => ret[i].asset_id = None
      /\ FailedAt(i) # "create" => ret[i].asset_id # None

\* the processing poll of task i returned success
Processed(i) == Event("status", "ok") \in Range(trace[i])

\* C3 (as claimed): a task whose processing poll returned success is
\* recorded in results['success'] and never in results['failed'], whatever
\* happens in archive creation, archive polling or download.
C3_ArchiveFailureKeepsSuccess ==
  \A i \in yielded :
    Processed(i) =>
      /\ Count(results.success, i) = 1
      /\ Count(results.failed, i) = 0

\* C4: at most max_workers task workflows are inside upload_gml_file at any
\* time, also when more paths than workers were given.
C4_AtMostMaxWorkers == Cardinality(RunningTasks) <= max_workers

C4_Witness ==
  /\ Len(file_paths) > max_workers
  /\ Cardinality(RunningTasks) = max_workers
  /\ queue # <<>>

\* the request that must have succeeded right before a request of step s
Predecessor(s) ==
  CASE s = "s3" -> Event("create", "ok")
    [] s = "notify" -> Event("s3", "ok")
    [] s = "status" -> Event("notify", "ok")
    [] s = "archive" -> Event("status", "ok")
    [] s = "archive status" -> Event("archive", "ok")
    [] s = "download" -> Event("archive status", "ok")

\* C5: within a task the requests are issued in the order create, storage
\* upload, notification, status poll, archive creation, archive poll,
\* download, each only after its predecessor succeeded.
C5_StepsInOrder ==
  \A i \in Tasks :
    \A k \in 1 .. Len(trace[i]) :
      IF k = 1 THEN trace[i][k].step = "create"
      ELSE /\ trace[i][k].step # "create"
           /\ trace[i][k - 1] = Predecessor(trace[i][k].step)

C5_Witness ==
  \E i \in Tasks :
    /\ Len(trace[i]) = 7
    /\ Last(trace[i]) = Event("download", "ok")

\* a step of the workflow of task i
TaskStep(i) ==
  \/ Step1_create_asset_metadata(i)
  \/ Step2_upload_file_to_s3(i)
  \/ Step3_notify_upload_complete(i)
  \/ Step4_wait_for_processing(i)
  \/ Step5_create_archive(i)
  \/ Step5_wait_for_archive_completion(i)
  \/ Step6_download_archive(i)

\* C6: a task's failure neither aborts upload_files_parallel nor stops a
\* sibling: no future re-raises, a task inside its workflow can always take
\* its next step, and when the call returns every task has the record of
\* its own outcome.
C6_FailureStaysLocal ==
  /\ \A i \in Tasks : tpc[i] = "done" => ~Raises(i)
  /\ mainpc = "raised" => Len(file_paths) = 0
  /\ \A i \in RunningTasks : ENABLED TaskStep(i)
  /\ mainpc = "returned" =>
       \A i \in Tasks :
         IF ret[i].success
           THEN SuccessRecord(i) \in Range(results.success)
           ELSE FailedRecord(i) \in Range(results.failed)

C6_Witness ==
  /\ mainpc = "returned"
  /\ \E i, j \in Tasks :
       /\ ~ret[i].success
       /\ Last(trace[i]).res = "raise"
       /\ ret[j].success
       /\ SuccessRecord(j) \in Range(results.success)

\* statuses on which wait_for_processing is said to stop
ProcFailed == {"ERROR", "DATA_ERROR"}

\* the fetches of h up to the first one that produced a status of S
UpToFirst(h, S) ==
  IF \E k \in 1 .. Len(h) : h[k] \in S
    THEN SubSeq(h, 1, CHOOSE k \in 1 .. Len(h) :
                        h[k] \in S /\ \A j \in 1 .. k - 1 : h[j] \notin S)
    ELSE h

\* C7: wait_for_processing returns (True, 'COMPLETE') exactly when a fetch
\* returned COMPLETE before any ERROR or DATA_ERROR; it returns (False, s)
\* when the first terminal status fetched is s in {ERROR, DATA_ERROR}; it
\* returns (False, 'TIMEOUT') when the budget is used up and no terminal
\* status was fetched.
C7_ProcessingPollResult ==
  LET first == UpToFirst(wfp.fetched, ProcFailed \cup {"COMPLETE"})
      seen == first # <<>> /\ Last(first) \in ProcFailed \cup {"COMPLETE"}
  IN  /\ (wfp.pc = "returned" /\ wfp.success /\ wfp.status = "COMPLETE")
           <=> (seen /\ Last(first) = "COMPLETE")
      /\ (seen /\ Last(first) \in ProcFailed) =>
           (wfp.pc = "returned" /\ ~wfp.success /\ wfp.status = Last(first))
      /\ (wfp.pc = "returned" /\ ~(wfp.elapsed < ProcTimeout) /\ ~seen) =>
           (~wfp.success /\ wfp.status = "TIMEOUT")

C7_Witness ==
  /\ wfp.pc = "returned"
  /\ wfp.success
  /\ Len(wfp.fetched) = 2
  /\ wfp.fetched[1] = "IN_PROGRESS"

\* C8 (as claimed): a status fetch that get_asset_status could not complete
\* does not end the processing poll; the loop goes on until a later fetch
\* or the budget ends it.
C8_FetchFailureContinues ==
  (wfp.fetched # <<>> /\ Last(wfp.fetched) = RequestFailed) =>
    \/ wfp.pc = "polling"
    \/ wfp.pc = "returned" /\ wfp.status = "TIMEOUT"

\* C9: a fetched status outside COMPLETE, ERROR and DATA_ERROR leaves the
\* processing poll running: the loop does not return on it, and it ends
\* after such a fetch only by its budget.
C9_OtherStatusKeepsPolling ==
  (wfp.fetched # <<>>
     /\ Last(wfp.fetched) \in Statuses \ (ProcFailed \cup {"COMPLETE"})) =>
    \/ wfp.pc = "polling"
    \/ /\ wfp.pc = "returned"
       /\ ~wfp.success
       /\ wfp.status = "TIMEOUT"
       /\ ~(wfp.elapsed < ProcTimeout)

C9_Witness ==
  /\ Len(wfp.fetched) = 2
  /\ wfp.fetched[1] = "UNKNOWN"
  /\ wfp.fetched[2] = "COMPLETE"
  /\ wfp.success

\* what a loop decided on its latest fetch: to go on, or to return
Decision(l) ==
  IF l.pc = "polling" \/ l.status = "TIMEOUT"
    THEN <<"continue">>
    ELSE <<"return", l.success, l.status>>

\* C10 (as claimed): given the same fetch outcomes, the archive poll and
\* the processing poll decide alike on each of them: succeed, fail with
\* that status, or continue.
C10_SamePollPolicy ==
  (wfp.fetched = wac.fetched /\ wfp.fetched # <<>>) =>
    Decision(wfp) = Decision(wac)

\* the completion notice of task i succeeded
Notified(i) == Event("notify", "ok") \in Range(trace[i])

\* the status named in the text of a processing failure, None in other texts
FailedStatus(msg) ==
  IF Len(msg) = 2
       /\ msg[1] = "Upload succeeded but processing failed with status"
    THEN msg[2]
    ELSE None

\* C11 (as claimed): a task whose completion notice succeeded has a record in
\* results['failed'] only when its processing poll returned ERROR or
\* DATA_ERROR; a lost connection or a timeout in the processing poll, the
\* archive creation, the archive poll or the download leaves it a success.
C11_FailureOnlyOnHardError ==
  \A i \in yielded :
    (Notified(i) /\ Count(results.failed, i) > 0) =>
      FailedStatus(ret[i].message) \in ProcFailed

\* a plausible slip: the ids are taken from the failed records as well
get_asset_ids_from_results_all ==
  LET all == results.success \o results.failed
      ids == [k \in 1 .. Len(all) |-> all[k].asset_id]
  IN  SelectSeq(ids, LAMBDA a : a # None)

\* get_asset_ids_from_results: the asset_id of every success record that
\* has a truthy one, in the order of the list
get_asset_ids_from_results ==
  LET ids == [k \in 1 .. Len(results.success) |->
                results.success[k].asset_id]
  IN  SelectSeq(ids, LAMBDA a : a # None)

\* requests that belong to the steps after the completion notice
LaterSteps == {"status", "archive", "archive status", "download"}

\* C12: with wait_for_completion = false no task ever issues a status poll,
\* an archive request or a download, and results['archived'] stays empty,
\* whatever create_archive and download_archive say; when the call returns
\* and every task's create, storage upload and notification succeeded,
\* every task has one success record with an asset id, results['failed'] is
\* empty and get_asset_ids_from_results lists one id per file.
C12_NoWaitAllSucceed ==
  ~options.wait_for_completion =>
    /\ results.archived = <<>>
    /\ \A i \in Tasks : \A k \in 1 .. Len(trace[i]) :
         trace[i][k].step \notin LaterSteps
    /\ (mainpc = "returned" /\ \A i \in Tasks : Notified(i)) =>
         /\ results.failed = <<>>
         /\ \A i \in Tasks : Count(results.success, i) = 1
         /\ \A k \in 1 .. Len(results.success) :
              results.success[k].asset_id # None
         /\ Len(get_asset_ids_from_results) = Len(file_paths)
         /\ Range(get_asset_ids_from_results) =
              {NewAssetId(i) : i \in Tasks}

C12_Witness ==
  /\ mainpc = "returned"
  /\ ~options.wait_for_completion
  /\ options.create_archive
  /\ options.download_archive
  /\ Len(file_paths) = 2
  /\ \A i \in Tasks : Notified(i)
  /\ Len(get_asset_ids_from_results) = 2

\* the processing poll of task i returned on a fetched ERROR or DATA_ERROR
HardError(i) ==
  /\ tpc[i] = "done"
  /\ Event("status", "false") \in Range(trace[i])
  /\ FailedStatus(ret[i].message) \in ProcFailed

\* C13: a processing poll under way returns (False, s) on a fetched status s
\* in {ERROR, DATA_ERROR}; a task whose poll returned so issued no archive
\* request, archive poll or download, also with create_archive and
\* download_archive set, returned its asset id, and once collected has one
\* record in results['failed'], with s in its error text and the asset id,
\* and none in results['success'].
C13_HardErrorIsFailure ==
  /\ \A i \in Tasks :
       (tpc[i] = "processing" /\ elapsed[i] < ProcTimeout) =>
         \A s \in ProcFailed :
           wait_for_processing(elapsed[i], s)
             = PollReturn(FALSE, s, elapsed[i])
  /\ \A i \in Tasks :
       HardError(i) =>
         /\ options.wait_for_completion
         /\ Last(trace[i]) = Event("status", "false")
         /\ ~ret[i].success
         /\ ret[i].asset_id = NewAssetId(i)
         /\ Count(results.archived, i) = 0
         /\ i \in yielded =>
              /\ Count(results.success, i) = 0
              /\ Count(results.failed, i) = 1
              /\ \A k \in 1 .. Len(results.failed) :
                   results.failed[k].task = i =>
                     /\ FailedStatus(results.failed[k].error) \in ProcFailed
                     /\ results.failed[k].asset_id # None

C13_Witness ==
  /\ options.create_archive
  /\ options.download_archive
  /\ \E i \in yielded :
       /\ HardError(i)
       /\ \E k \in 1 .. Len(results.failed) :
            /\ results.failed[k].task = i
            /\ FailedStatus(results.failed[k].error) = "DATA_ERROR"

\* the download of task i was attempted and failed / succeeded
DownloadFailed(i) == Event("download", "false") \in Range(trace[i])

Downloaded(i) == Event("download", "ok") \in Range(trace[i])

\* the records of task i in results['archived']
Archived(i) == {k \in 1 .. Len(results.archived) : results.archived[k].task = i}

\* C14: a task that came through archive completion and whose download
\* failed returns success, is recorded in results['success'] once collected,
\* and has exactly one record in results['archived'], with its asset id and
\* archive id and without download_path; a record of results['archived']
\* has a download_path exactly if the download of its task succeeded.
C14_DownloadFailureKeepsArchive ==
  /\ \A i \in Tasks :
       DownloadFailed(i) =>
         /\ tpc[i] = "done"
         /\ ret[i].success
         /\ i \in yielded =>
              Count(results.success, i) = 1 /\ Count(results.failed, i) = 0
         /\ Cardinality(Archived(i)) = 1
         /\ \A k \in Archived(i) :
              /\ results.archived[k].asset_id = NewAssetId(i)
              /\ results.archived[k].archive_id = NewArchiveId(i)
              /\ "download_path" \notin DOMAIN results.archived[k]
  /\ \A k \in 1 .. Len(results.archived) :
       "download_path" \in DOMAIN results.archived[k]
         <=> Downloaded(results.archived[k].task)

C14_Witness ==
  /\ mainpc = "returned"
  /\ Len(file_paths) = 2
  /\ DownloadFailed(1)
  /\ Downloaded(2)
  /\ Len(results.success) = 2
  /\ Len(results.archived) = 2

\* the decimal numerals a de-duplication counter can reach
Numerals == {ToString(n) : n \in 1 .. MaxDownloads}

\* name q is name p followed by one or more groups _<number>
NumericSuffix(p, q) ==
  /\ Len(q) > Len(p)
  /\ SubSeq(q, 1, Len(p)) = p
  /\ (Len(q) - Len(p)) % 2 = 0
  /\ \A k \in Len(p) + 1 .. Len(q) :
       IF (k - Len(p)) % 2 = 1 THEN q[k] = "_" ELSE q[k] \in Numerals

\* C15: of two successful download_archive calls made one after the other
\* on the same output directory with equal sanitized names, the second
\* returns another path than the first, namely the first one's name with a
\* numeric suffix, and the file the first call wrote is still the first
\* call's file.
C15_DistinctDownloadPaths ==
  \A j, k \in 1 .. Len(dl_calls) :
    (/\ j < k
     /\ dl_calls[j].success
     /\ dl_calls[k].success
     /\ dl_calls[j].safe_name = dl_calls[k].safe_name) =>
      /\ dl_calls[j].path # dl_calls[k].path
      /\ NumericSuffix(Stem(dl_calls[j].path), Stem(dl_calls[k].path))
      /\ dl_calls[j].path \in DOMAIN dl_fs
      /\ dl_fs[dl_calls[j].path] = [by |-> j, size |-> 1]
      /\ dl_fs[dl_calls[k].path] = [by |-> k, size |-> 1]

C15_Witness ==
  /\ Len(dl_calls) = 3
  /\ dl_calls[1].name = <<"a", "_", "1">>
  /\ dl_calls[2].name = <<"a">>
  /\ dl_calls[3].name = <<"a", "/", " ">>
  /\ \A k \in 1 .. 3 : dl_calls[k].success
  /\ dl_calls[2].path = <<"a", ".zip">>
  /\ dl_calls[3].path = <<"a", "_", "1", "_", "2", ".zip">>

\* the create-asset requests task i has issued
CreateRequests(i) ==
  {k \in 1 .. Len(trace[i]) : trace[i][k].step = "create"}

\* C20: a task issues exactly one create-asset request over its life: none
\* before its worker reaches step 1, and exactly one from then on, whatever
\* the request's fate and the task's outcome.
C20_ExactlyOneCreate ==
  \A i \in Tasks :
    Cardinality(CreateRequests(i))
      = IF tpc[i] \in {"new", "queued", "create"} THEN 0 ELSE 1

C20_Witness ==
  /\ mainpc = "returned"
  /\ Len(file_paths) = 2
  /\ Last(trace[1]) = Event("create", "none")
  /\ Last(trace[2]) = Event("download", "ok")
  /\ \A i \in Tasks : Cardinality(CreateRequests(i)) = 1

\* the workflow stage a position of upload_gml_file stands for: PENDING,
\* METADATA_CREATED, UPLOADED, NOTIFIED, PROCESSED (the archive is being
\* created or polled), ARCHIVED, and the terminal outcomes
StageRank(pc) ==
  CASE pc \in {"new", "queued", "create"} -> 0
    [] pc = "s3" -> 1
    [] pc = "notify" -> 2
    [] pc = "processing" -> 3
    [] pc \in {"archive", "archiving"} -> 4
    [] pc = "download" -> 5
    [] pc = "done" -> 6

\* C19 (as claimed): the asset id of a task is assigned at most once and
\* the id the task reports when it returns is that id; the stage of a task
\* never moves back; nothing of a task changes once it has returned.
C19_IdAndStageStable ==
  /\ [](\A i \in Tasks :
         (tpc[i] = "done" /\ asset_id[i] # None) =>
           ret[i].asset_id = asset_id[i])
  /\ [][\A i \in Tasks :
         /\ asset_id[i] # None => asset_id'[i] = asset_id[i]
         /\ StageRank(tpc'[i]) >= StageRank(tpc[i])
         /\ tpc[i] = "done" =>
              /\ tpc'[i] = "done"
              /\ ret'[i] = ret[i]
              /\ trace'[i] = trace[i]
              /\ asset_id'[i] = asset_id[i]]_vars

\* what a state tells about the order in which two workflows returned: with
\* one worker thread the work items run one after the other in the order of
\* submission; and a future that was done when as_completed was called
\* returned before one that was not
ReturnedBefore(a, b) ==
  /\ tpc[a] = "done"
  /\ tpc[b] = "done"
  /\ \/ max_workers = 1 /\ a < b
     \/ mainpc # "submit" /\ a \in ac_finished /\ b \notin ac_finished

\* every record of task a stands before every record of task b
Precedes(list, a, b) ==
  \A j, k \in 1 .. Len(list) :
    (list[j].task = a /\ list[k].task = b) => j < k

\* C17 (as claimed): if the workflow of task a returned before that of task
\* b, the record of a precedes the record of b in results['success'] and
\* in results['failed'], whenever both are in the same list.
C17_CompletionOrderKept ==
  \A a, b \in yielded :
    ReturnedBefore(a, b) =>
      /\ Precedes(results.success, a, b)
      /\ Precedes(results.failed, a, b)

\* C18 (as claimed), for a batch of at least one file: when time advances
\* and every request that carries a timeout ends, every task reaches a
\* terminal outcome and upload_files_parallel returns.
C18_BatchTerminates ==
  Len(file_paths) > 0 =>
    <>(mainpc = "returned" /\ \A i \in Tasks : tpc[i] = "done")

\* how many threads are executing an append statement on self.results
Appending ==
  Cardinality({w \in AppendThreads : ap_worker[w] = "append"})
    + (IF ap_main.pc = "append" THEN 1 ELSE 0)

NotifyCalls(i) ==
  {k \in 1 .. Len(trace[i]) : trace[i][k].step = "notify"}

\* C21: a task calls notify_upload_complete exactly once if its storage
\* upload succeeded and never otherwise; a notification that failed is the
\* task's last request, so it is not repeated and no status poll follows,
\* and the task returns a failure, which is recorded in results['failed'].
C21_NotifyOnce ==
  \A i \in Tasks :
    LET t == trace[i] IN
      /\ (\E k \in 1 .. Len(t) : t[k].step = "notify")
           <=> /\ \E k \in 1 .. Len(t) : t[k] = Event("s3", "ok")
               /\ tpc[i] # "notify"
      /\ \A k \in 1 .. Len(t) :
           t[k].step = "notify" =>
             /\ \A l \in 1 .. Len(t) : t[l].step = "notify" => l = k
             /\ t[k].res # "ok" =>
                  /\ k = Len(t)
                  /\ tpc[i] = "done"
                  /\ ~ret[i].success
                  /\ i \in yielded =>
                       /\ Count(results.failed, i) = 1
                       /\ Count(results.success, i) = 0

C21_Witness ==
  /\ options.wait_for_completion
  /\ \E i, j \in yielded :
       /\ Last(trace[i]) = Event("notify", "false")
       /\ Count(results.failed, i) = 1
       /\ Last(trace[j]) = Event("s3", "false")
       /\ NotifyCalls(j) = {}

\* main() was ended by an exception, reported by one of its handlers
Aborted == mn_out \in {"Configuration Error", "Unexpected error"}

\* C22 (as claimed): without the token the run ends with a configuration
\* error before any task starts and without a result record; and no other
\* error ends a whole run.
C22_OnlyMissingTokenAborts ==
  /\ (mn_pc # "idle" /\ ~mn_env.token) =>
       /\ mn_res = [started |-> 0, success |-> 0, failed |-> 0]
       /\ mn_pc \notin {"get_gml_files", "upload", "tasks"}
       /\ (mn_pc \in {"returned", "exited"} /\ mn_out # "usage error") =>
            mn_out = "Configuration Error"
  /\ Aborted => ~mn_env.token

\* C23 (as claimed): the exit status of the upload run is non-zero when a
\* task ended in results['failed'], and zero only when every task succeeded.
C23_ExitStatusTellsFailure ==
  mn_pc = "exited" =>
    /\ mn_res.failed > 0 => mn_exit # 0
    /\ mn_exit = 0 => mn_res.failed = 0

\* the interrupt arrived while monitor_assets was polling: in a fetch round
\* or in the sleep between two rounds
InterruptedPolling == mo_int.pc \in {"round", "fetch", "check", "sleep"}

\* C24: after an interrupt that arrives while monitor_assets is polling, no
\* further call of get_asset_status is made, the exception does not leave
\* monitor_assets, and once it is handled monitor_assets has returned
\* with its stopped-by-user message.
C24_InterruptStopsMonitor ==
  InterruptedPolling =>
    /\ Len(mo_log) = mo_int.fetches
    /\ mo_pc # "raised"
    /\ mo_exc = NoException =>
         /\ mo_pc = "returned"
         /\ mo_out = "Monitoring stopped by user"

\* the interrupt arrived during a sleep after a round of fetches, and
\* monitor_assets has returned
C24_Witness ==
  /\ mo_int.pc = "sleep"
  /\ mo_int.fetches > 0
  /\ mo_pc = "returned"
  /\ mo_exc = NoException

\* C24, in a fetch: the interrupt arrived inside get_asset_status
C24_WitnessFetch ==
  /\ mo_int.pc = "fetch"
  /\ mo_pc = "returned"

\* calls i and j of get_asset_status asked for the same asset and found the
\* server holding the same status for it
SameQuestion(i, j) ==
  /\ mo_log[i].id = mo_log[j].id
  /\ mo_log[i].server = mo_log[j].server

SummaryMessages ==
  {"All uploads completed successfully", "Partial success", "All uploads failed"}

\* C25 (as claimed): an interrupt that arrives while the batch is running
\* does not crash the run: the records appended so far stay, no exception
\* leaves main(), every task of the batch is accounted for when the run
\* ends, and the run ends with its summary.
C25_InterruptKeepsBatch ==
  mn_int =>
    /\ mn_res.success + mn_res.failed <= mn_res.started
    /\ mn_pc # "raised"
    /\ mn_pc \in {"returned", "exited"} =>
         /\ mn_out \in SummaryMessages
         /\ mn_res.success + mn_res.failed = mn_env.files

\* the calls task i made of an operation that let an exception escape to
\* upload_gml_file
Escaped(i) ==
  {k \in 1 .. Len(trace[i]) : trace[i][k].res = "raise"}

\* C26 (as claimed): no call a task makes of create_asset_metadata,
\* upload_file_to_s3, notify_upload_complete, get_asset_status, create_archive
\* or download_archive lets an exception escape to its caller; every failure
\* comes back as a return value.
C26_NoExceptionEscapes ==
  \A i \in Tasks : Escaped(i) = {}

\* the records of a result list that carry the file name of path p
NamedRecords(list, p) ==
  {k \in 1 .. Len(list) : list[k].file = Filename(p)}

\* the tasks of path p whose future the loop at 505-527 has taken
Taken(p) == {t \in yielded : file_paths[t] = p}

\* C28: two tasks of one batch that were given the same file path stay two
\* tasks: each issues its own create request and gets its own asset id, each
\* has one record of its own once the calling thread has taken its future,
\* and the result lists hold as many records with that file name as
\* futures of that path were taken.
C28_DuplicatePathsKept ==
  \A i, j \in Tasks :
    (i < j /\ file_paths[i] = file_paths[j]) =>
      /\ \A t \in {i, j} :
           /\ Cardinality(CreateRequests(t))
                = IF tpc[t] \in {"new", "queued", "create"} THEN 0 ELSE 1
           /\ Count(results.success, t) + Count(results.failed, t)
                = IF t \in yielded THEN 1 ELSE 0
      /\ (asset_id[i] # None /\ asset_id[j] # None) => asset_id[i] # asset_id[j]
      /\ Cardinality(NamedRecords(results.success, file_paths[i]))
           + Cardinality(NamedRecords(results.failed, file_paths[i]))
           = Cardinality(Taken(file_paths[i]))

\* a batch of the same path given twice has returned, both tasks having
\* created their asset, with a record for each
C28_Witness ==
  /\ mainpc = "returned"
  /\ Len(file_paths) = 2
  /\ file_paths[1] = file_paths[2]
  /\ asset_id[1] # None
  /\ asset_id[2] # None
  /\ Len(results.success) + Len(results.failed) = 2

\* the tasks whose record is in results['failed']
FailedTasks == {results.failed[k].task : k \in 1 .. Len(results.failed)}

\* C29: when upload_files_parallel has ended, get_asset_ids_from_results is
\* as long as results['success'], its k-th id is the asset id of the k-th
\* success record, which is the id the server gave that record's task, and
\* no id of a task recorded as failed is in it.
C29_IdsOfSuccessfulTasks ==
  mainpc \in {"returned", "raised"} =>
    LET ids == get_asset_ids_from_results IN
      /\ Len(ids) = Len(results.success)
      /\ \A k \in 1 .. Len(ids) :
           /\ ids[k] = results.success[k].asset_id
           /\ ids[k] = NewAssetId(results.success[k].task)
      /\ \A t \in FailedTasks : NewAssetId(t) \notin Range(ids)

\* a batch has returned with a successful task and a task that failed after
\* its asset id was assigned
C29_Witness ==
  /\ mainpc = "returned"
  /\ Len(results.success) = 1
  /\ Len(results.failed) = 1
  /\ asset_id[results.failed[1].task] # None
  /\ Len(get_asset_ids_from_results) = 1

\* C30 (as claimed): two workers that run download_archive at the same time
\* for archives with equal sanitized names and both succeed have written
\* two different paths, and each path holds the file of its own worker.
C30_ConcurrentPathsDistinct ==
  \A v, w \in DownloadWorkers :
    (/\ v # w
     /\ cd_w[v].pc = "done" /\ cd_w[v].success
     /\ cd_w[w].pc = "done" /\ cd_w[w].success
     /\ cd_w[v].safe_name = cd_w[w].safe_name) =>
      /\ cd_w[v].path # cd_w[w].path
      /\ cd_fs[cd_w[v].path].by = v
      /\ cd_fs[cd_w[w].path].by = w

\* the calls of get_asset_status made in the round that ended last
LastRound ==
  {k \in 1 .. Len(mo_log) : k > Len(mo_log) - mo_ids}

\* C31 (as claimed): monitor_assets announces that all monitored assets
\* have completed only at the end of a round in which every asset was
\* fetched with an answer and had a status in COMPLETE, ERROR, DATA_ERROR;
\* an asset whose status could not be retrieved keeps the monitor running.
C31_CompletesOnlyWhenAllFinal ==
  mo_out = "All monitored assets have completed" =>
    /\ Cardinality(LastRound) = mo_ids
    /\ \A k \in LastRound :
         /\ mo_log[k].res # NoAsset
         /\ ~StillProcessing(mo_log[k].res)

\* C32: when upload_files_parallel has returned, every record of
\* results['archived'] has a record in results['success'] of the same task
\* with the same file and asset id, its task has no record in
\* results['failed'] and no second record in results['archived'], and
\* results['archived'] is no longer than results['success'].
C32_ArchivedAreSuccessful ==
  mainpc = "returned" =>
    /\ Len(results.archived) <= Len(results.success)
    /\ \A k \in 1 .. Len(results.archived) :
         LET a == results.archived[k] IN
           /\ \E m \in 1 .. Len(results.success) :
                /\ results.success[m].task = a.task
                /\ results.success[m].file = a.file
                /\ results.success[m].asset_id = a.asset_id
           /\ Count(results.failed, a.task) = 0
           /\ \A l \in 1 .. Len(results.archived) :
                results.archived[l].task = a.task => l = k

\* a batch of two files has returned: one task was archived, the other
\* failed
C32_Witness ==
  /\ mainpc = "returned"
  /\ Len(file_paths) = 2
  /\ Len(results.archived) = 1
  /\ Len(results.failed) = 1

\* list a is the beginning of list b
IsPrefix(a, b) ==
  /\ Len(a) <= Len(b)
  /\ \A k \in 1 .. Len(a) : a[k] = b[k]

WroteFile(w) == \E p \in DOMAIN cd_fs : cd_fs[p].by = w

\* C34: a download_archive call requests the download URL and the download
\* only after it fetched the archive info with status COMPLETE; with no info
\* or another status it ends with (False, None), the info request being its
\* only request, and creates no file; a call returns (True, path) only at
\* a moment at which the file at path exists and is not empty, and
\* (False, None) in every other case.
C34_DownloadOnlyWhenComplete ==
  /\ [](\A w \in DownloadWorkers :
          LET wr == cd_w[w] IN
            /\ (\E k \in 1 .. Len(wr.reqs) : wr.reqs[k] \in {"url", "download"})
                 => wr.info = "COMPLETE"
            /\ wr.info \notin {"", "COMPLETE"} =>
                 /\ wr.pc = "done"
                 /\ ~wr.success
                 /\ wr.ret = None
                 /\ wr.reqs = <<"info">>
                 /\ ~WroteFile(w)
            /\ wr.pc = "done" =>
                 IF wr.success THEN wr.ret = wr.path /\ wr.ret # None
                               ELSE wr.ret = None
            /\ wr.pc # "done" => ~wr.success)
  /\ [][\A w \in DownloadWorkers :
          (cd_w[w].pc # "done" /\ cd_w'[w].pc = "done" /\ cd_w'[w].success) =>
            /\ cd_w'[w].ret \in DOMAIN cd_fs'
            /\ cd_fs'[cd_w'[w].ret].size > 0]_vars

\* one call ended on an archive that is not COMPLETE, another returned the
\* path of the file it wrote
C34_Witness ==
  /\ cd_w[1].pc = "done"
  /\ cd_w[1].info = "FAILED"
  /\ cd_w[2].pc = "done"
  /\ cd_w[2].success
  /\ WroteFile(2)

\* --archive without --wait, or --download without --archive
BadOptions ==
  \/ mn_env.archive /\ ~mn_env.wait
  \/ mn_env.download /\ ~mn_env.archive

\* C35: a run of main started with --archive but not --wait, or with
\* --download but not --archive, returns from the argument checks: the
\* helper is not constructed, no file is looked for and no task is run; so
\* whenever main is past its argument checks, archive creation is on only
\* with waiting and download only with archive creation.
C35_OptionDependencies ==
  mn_pc # "idle" =>
    /\ BadOptions =>
         /\ mn_pc \in {"validate", "returned", "exited"}
         /\ mn_res = [started |-> 0, success |-> 0, failed |-> 0]
         /\ mn_pc # "validate" => mn_out = "usage error"
    /\ mn_pc \in {"construct", "get_gml_files", "upload", "tasks", "unwinding",
                  "raised"} =>
         /\ mn_env.archive => mn_env.wait
         /\ mn_env.download => mn_env.archive
    /\ mn_out = "usage error" => BadOptions

\* a run with --download and --wait but without --archive has ended
C35_Witness ==
  /\ mn_pc = "exited"
  /\ mn_env.download
  /\ mn_env.wait
  /\ ~mn_env.archive
  /\ mn_env.token
  /\ mn_env.files > 0
  /\ mn_out = "usage error"

\* the archives download_all_completed_archives has to download
Completed == CompletedArchives(da_server, 1)

\* C36: once download_all_completed_archives has ended it has returned:
\* it called download_archive for the archives listed COMPLETE and for no
\* other, and its list holds one record per COMPLETE archive, in order
\* (the empty list when there is none)
C36_OneRecordPerCompleteArchive ==
  da_pc \in {"returned", "raised", "exited"} =>
    /\ da_exc = NoException
    /\ da_attempts = Completed
    /\ Len(da_ret) = Len(Completed)
    /\ \A k \in 1 .. Len(da_ret) : da_ret[k].archive_id = Completed[k]

\* C36, the observed end: the call is left by AttributeError, no download
\* was attempted and the script exits with status 1
C36_EndsInAttributeError ==
  da_pc = "exited" =>
    da_exc = "AttributeError" /\ da_attempts = <<>> /\ da_exit = 1

\* the call has ended, by a return or by an exception
ArchivingEnded == ca_pc \in {"done", "raised"}

\* create_archive is called only for ids whose fetched status is COMPLETE,
\* in the order of the list and each at most once, one at a time: the next
\* request is made after the poll of the one before has returned
RequestsOnlyForCompleted ==
  /\ \A k \in 1 .. Len(ca_requests) :
       /\ ca_requests[k] <= Len(ca_fetched)
       /\ ca_fetched[ca_requests[k]] = "COMPLETE"
       /\ \A j \in 1 .. k - 1 : ca_requests[j] < ca_requests[k]
  /\ \A k \in 1 .. Len(ca_polls) :
       \E j \in 1 .. Len(ca_requests) : ca_requests[j] = ca_polls[k].asset_id
  /\ (\A k \in 1 .. Len(ca_fetched) : ca_fetched[k] # "COMPLETE")
       => ca_requests = <<>>

\* a record of this call is in results['archived'] only for an asset whose
\* archive poll returned COMPLETE, and for each such asset
ArchivedOnlyAfterCompletePoll ==
  \A a \in 1 .. MaxArchiveAssets :
    (\E k \in 1 .. Len(ca_archived) : ca_archived[k].asset_id = a)
      <=> (\E k \in 1 .. Len(ca_polls) :
             ca_polls[k].asset_id = a /\ ca_polls[k].status = "COMPLETE")

\* once the call has ended every id was fetched and create_archive was
\* called for every id fetched as COMPLETE
AllAssetsProcessed ==
  ArchivingEnded =>
    /\ Len(ca_fetched) = Len(ca_ids)
    /\ \A k \in 1 .. Len(ca_ids) :
         ca_fetched[k] = "COMPLETE" =>
           \E j \in 1 .. Len(ca_requests) : ca_requests[j] = k

\* C37: create_archive is requested only for assets fetched as COMPLETE,
\* one at a time; a record is appended only after an archive poll that
\* returned COMPLETE; and whatever fails for one asset, every asset of the
\* list has been processed when the call ends
C37_ArchivesEveryCompletedAsset ==
  /\ RequestsOnlyForCompleted
  /\ ArchivedOnlyAfterCompletePoll
  /\ AllAssetsProcessed

\* C37, the part the code keeps: what is requested and what is recorded,
\* and a call that returns has processed every asset
C37_ReturnedCallProcessedAll ==
  /\ RequestsOnlyForCompleted
  /\ ArchivedOnlyAfterCompletePoll
  /\ ca_pc = "done" =>
       /\ Len(ca_fetched) = Len(ca_ids)
       /\ \A k \in 1 .. Len(ca_ids) :
            ca_fetched[k] = "COMPLETE" =>
              \E j \in 1 .. Len(ca_requests) : ca_requests[j] = k

\* C37, line 802: results['archived'] only grows by appends
C37_ArchivedAppendOnly ==
  [][IsPrefix(ca_archived, ca_archived')]_vars

====
